---- MODULE Spec2Model ----
(***************************************************************************)
(* Ingestion orchestration of pdf-rag-mcp: the bounded task queue and the  *)
(* worker pool of PDFProcessor, the pipeline executor, the polling         *)
(* DirectoryWatcher, the upload entry point ProcessingManager.enqueue and  *)
(* the documents / failed_files tables of MarkdownRepository.              *)
(***************************************************************************)
EXTENDS Integers, Sequences, FiniteSets, TLC

(***************************************************************************)
(* Configuration (Settings) and the bounds of the model.                   *)
(***************************************************************************)
\* Settings.processor_workers (PROCESS_WORKERS)
ProcessorWorkers == 2
\* Settings.processor_queue_maxsize (PROCESS_QUEUE_MAXSIZE)
ProcessorQueueMaxsize == 2
\* Settings.max_process_attempts (MAX_PROCESS_ATTEMPTS)
MaxProcessAttempts == 3
\* bound: tasks accepted by the queue over a run, shutdown sentinels apart
MaxTasks == 2
\* bound: the same, for the runs in which only the watcher submits
MaxWatchTasks == 4
\* bound: the same, for the shorter runs of the watcher alone
MaxScanTasks == 3
\* bound: the same, for the runs in which the watcher and uploads submit
MaxIngestTasks == 3
\* bound: the same, for the runs about the on_progress hook
MaxPipelineTasks == 3
\* bound: the same, for the runs in which process_pdf is called
MaxSyncTasks == 1
\* bound: the same, for the short runs of the watcher beside uploads
MaxServiceTasks == 2
\* bound: most tokens of a text handed to chunk_markdown
MaxTokens == 7
\* bound: largest chunk_size argument of chunk_markdown
MaxChunkSize == 4
\* bound: most chunks of a document handed to the embedding backend
MaxChunks == 2
\* bound: the same, for the runs that begin before PDFProcessor.__init__
MaxConstructTasks == 1
\* bound: failure-ledger calls made over a run of the repository's threads
MaxLedgerCalls == 4
\* bound: the same, for the runs in which the job status is asked for
MaxStatusTasks == 1
\* bound: status_payload calls made over a run
MaxStatusCalls == 1
\* bound: the same, for the runs of uploads beside shutdown
MaxPoolTasks == 2
\* bound: the same, for the short runs in which shutdown is called
MaxStopTasks == 1
\* bound: uploads received over a run
MaxUploads == 3
\* bound: largest attempt count of the ledger-only runs before a call, their
\* max_attempts arguments going one beyond it
MaxAttemptsArg == 3

\* worker_count = max(1, settings.processor_workers)
WorkerCount == IF ProcessorWorkers > 1 THEN ProcessorWorkers ELSE 1
\* queue.Queue(maxsize=max(1, settings.processor_queue_maxsize))
QueueMaxsize == IF ProcessorQueueMaxsize > 1 THEN ProcessorQueueMaxsize ELSE 1

Workers == 1..WorkerCount
\* the thread of DirectoryWatcher._run ("pdf-watcher")
WatcherThread == WorkerCount + 1
\* the threads that call the failure ledger of the one MarkdownRepository
RepoThreads == Workers \cup {WatcherThread}
\* the thread that calls process_pdf (main.py), which is none of the workers
Caller == 0
Threads == Workers \cup {Caller}

\* the *.pdf files under settings.watch_dir
WatchPaths == {"a.pdf"}
\* the source paths the ledger-only runs call the failure ledger with
LedgerPaths == {"a.pdf", "b.pdf"}
\* upload destinations upload_dir / f"{job_id}_{file.filename}", one per job
UploadNames == <<"u1.pdf", "u2.pdf", "u3.pdf", "u4.pdf">>
JobIds == 1..MaxUploads
UploadPaths == {UploadNames[j] : j \in JobIds}
\* the pdf argument of the command line (main.py)
SyncPath == "s.pdf"
\* the file of a task handed to submit_task by a direct caller
ApiPath == "x.pdf"
Paths == WatchPaths \cup UploadPaths \cup {ApiPath, SyncPath}

\* the names _create_parser knows (compared after lower())
ParserBackends == {"pymupdf", "docling"}
\* the names embed_documents knows (compared after lower())
EmbeddingBackends == {"local", "openai"}
\* values of PDF_PARSER and EMBEDDING_BACKEND in the environment
ParserNames == ParserBackends \cup {"pdfminer"}
EmbeddingNames == EmbeddingBackends \cup {"cohere"}

\* extracted texts (markdown) the parser can return
Contents == {1, 2}

\* the four callback hooks of a ProcessingTask
Hooks == {"on_start", "on_progress", "on_success", "on_error"}
\* which hooks of a directly submitted task raise when called
HookFaults == {{}, {"on_start"}, {"on_success"}, {"on_error"}}
\* the same for the runs about the on_progress hook: it raises at every event or never
ProgressFaults == {{}, {"on_progress"}}

\* hooks: the task's on_start, on_progress, on_success and on_error are set
NoTask == [job_id |-> "none", source_path |-> ".", job |-> 0, raises |-> {},
           hooks |-> FALSE]
\* ProcessingTask(job_id="__shutdown__", source_path=Path("."), ...)
Sentinel == [job_id |-> "__shutdown__", source_path |-> ".", job |-> 0, raises |-> {},
             hooks |-> FALSE]
\* the task built by DirectoryWatcher._scan_once; its hooks do not raise
WatcherTask(p) == [job_id |-> "watcher", source_path |-> p, job |-> 0, raises |-> {},
                   hooks |-> TRUE]
\* the task built by ProcessingManager.enqueue; its hooks update the job map
UploadTask(j) == [job_id |-> "upload", source_path |-> UploadNames[j], job |-> j,
                  raises |-> {}, hooks |-> TRUE]
\* a task built by any other caller of submit_task, with hooks of its own
ApiTask(r) == [job_id |-> "api", source_path |-> ApiPath, job |-> 0, raises |-> r,
               hooks |-> TRUE]
\* the task built by process_pdf: job_id "sync:<sha1>", every hook None
SyncTask == [job_id |-> "sync", source_path |-> SyncPath, job |-> 0, raises |-> {},
             hooks |-> FALSE]

VARIABLES
    queue,        \* PDFProcessor._task_queue: the tasks waiting, oldest first
    unfinished,   \* queue.Queue.unfinished_tasks (put increments, task_done decrements)
    wk,           \* per worker thread: its place in _worker_loop and its task
    docs,         \* table documents, in id order: row i has id i
    indexed,      \* document ids with embeddings in the VectorStore
    failed,       \* table failed_files: per source_path its row (attempts = 0: no row)
    jobs,         \* ProcessingManager._jobs
    nUploads,     \* uploads received so far
    nAccepted,    \* tasks accepted by the queue so far
    budget,       \* how many tasks the run may accept
    fileContent,  \* the text the parser extracts from each file
    up,           \* the upload request handler (ProcessingManager.enqueue)
    cl,           \* a direct caller of PDFProcessor.submit_task
    sd,           \* PDFProcessor.shutdown: called, sentinels left to put, wait,
                  \* returned, and the workers that had a task when it was called
    wt,           \* the DirectoryWatcher thread
    hist,         \* per watched path: how its watcher tasks ended so far (fails in a
                  \* row, a success), whether one was submitted by a scan that
                  \* began before the one before it had finished (overlap), and
                  \* whether a submit for it found the queue full ("full") and a
                  \* later one then found room ("done")
    lastPut,      \* the outcome of the latest submit_task(task, block=False) call
    led,          \* the latest failure-ledger call and what it returned
    ck,           \* one call of EmbeddingManager.chunk_markdown: its arguments, the
                  \* loop's start and the chunks appended so far
    vs,           \* the VectorStore: _embedding_dim, the rows of its table and the
                  \* latest add_embeddings call
    pr,           \* the PDFProcessor object: the backends named by its settings and
                  \* how far PDFProcessor.__init__ has come
    rp,           \* MarkdownRepository._lock and, per thread, the failure-ledger
                  \* call it is inside
    st,           \* one call of ProcessingManager.status_payload
    md            \* the metadata of one task through _collect_metadata and save

vars == <<queue, unfinished, wk, docs, indexed, failed, jobs, nUploads, nAccepted, budget,
          fileContent, up, cl, sd, wt, hist, lastPut, led, ck, vs, pr, rp, st, md>>

(***************************************************************************)
(* MarkdownRepository                                                      *)
(***************************************************************************)
\* PDFProcessor._compute_hash: sha256 of the text, one digest per text
ComputeHash(markdown) == <<"sha256", markdown>>

\* PDFProcessor._extract_markdown
ExtractMarkdown(path) == fileContent[path]

\* first row of documents with the column equal to the value, 0 when none
FirstRow(rows, col, v) ==
    IF \E i \in 1..Len(rows) : rows[i][col] = v
    THEN CHOOSE i \in 1..Len(rows) :
            /\ rows[i][col] = v
            /\ \A k \in 1..(i - 1) : rows[k][col] # v
    ELSE 0

\* get_by_hash comparing the digest with the source_path column: no row matches
GetByHashWrongColumn(rows, h) == 0

\* MarkdownRepository.get_by_hash: the id of the record, 0 for None
GetByHash(rows, h) == FirstRow(rows, "content_hash", h)

\* MarkdownRepository.get_by_source_path: the id of the record, 0 for None
GetBySourcePath(rows, p) == FirstRow(rows, "source_path", p)

\* MarkdownRepository.save: INSERT INTO documents; the id is the new rowid
SaveRow(rows, p, h) == Append(rows, [source_path |-> p, content_hash |-> h])

NoRow == [attempts |-> 0, blacklisted |-> FALSE]

\* record_failure computing the flag from this call's max_attempts alone
RecordFailureRecomputes(row, max_attempts) ==
    IF row.attempts = 0
    THEN [attempts |-> 1, blacklisted |-> FALSE]
    ELSE [attempts |-> row.attempts + 1,
          blacklisted |-> (row.attempts + 1 >= max_attempts)]

\* MarkdownRepository.record_failure: the row written, which is also returned
RecordFailure(row, max_attempts) ==
    IF row.attempts = 0
    THEN [attempts |-> 1, blacklisted |-> FALSE]
    ELSE LET attempts == row.attempts + 1
         IN  [attempts |-> attempts,
              blacklisted |-> (row.blacklisted \/ attempts >= max_attempts)]

\* clear_failures resetting the flag of the row and keeping its count
ClearFailuresKeepsAttempts(row) == [row EXCEPT !.blacklisted = FALSE]

\* MarkdownRepository.clear_failures: DELETE FROM failed_files
ClearFailures(row) == NoRow

\* MarkdownRepository.is_blacklisted
IsBlacklisted(row) == IF row.attempts = 0 THEN FALSE ELSE row.blacklisted

(***************************************************************************)
(* The task queue: queue.Queue.put as PDFProcessor.submit_task calls it    *)
(***************************************************************************)
\* a queue built without its maxsize: it is never full
IsFullNever(q) == FALSE

\* queue.Queue.full(): maxsize items are waiting
IsFull(q) == Len(q) >= QueueMaxsize

\* submit_task handing the task to put() without its block argument
PutIgnoringBlock(q, task, block) ==
    IF ~IsFull(q) THEN [q |-> Append(q, task), result |-> "ok"]
    ELSE [q |-> q, result |-> "wait"]

\* PDFProcessor.submit_task -> Queue.put(task, block=..): the queue after the
\* call and how the call ends at once: "ok" (enqueued), "Full" (queue.Full
\* raised) or "wait" (the caller sleeps until a slot is free)
Put(q, task, block) ==
    IF ~IsFull(q) THEN [q |-> Append(q, task), result |-> "ok"]
    ELSE IF block THEN [q |-> q, result |-> "wait"]
    ELSE [q |-> q, result |-> "Full"]

(***************************************************************************)
(* Initial state: PDFProcessor.__init__ has started the workers and the    *)
(* watcher, both tables are empty, nothing is queued.                      *)
(***************************************************************************)
IdleWorker == [pc |-> "get", task |-> NoTask, rec |-> 0, exc |-> "none",
               piped |-> FALSE, starts |-> 0, succ |-> 0, errs |-> 0,
               errArg |-> "none", escaped |-> FALSE, log |-> <<>>,
               ledgerRaised |-> FALSE]

\* the calling thread of process_pdf, outside any call
IdleCaller == [IdleWorker EXCEPT !.pc = "idle"]

NoJob == [status |-> "none", progress |-> 0, document_id |-> 0, error |-> "none"]

NoHist == [fails |-> 0, overlap |-> FALSE, succ |-> FALSE, deferred |-> "no"]

\* aborted: the scan before this sleep was ended by an exception
SleepingWatcher == [pc |-> "sleep", todo |-> {}, cur |-> ".", existing |-> FALSE,
                    hadRecord |-> FALSE, wasBlacklisted |-> FALSE, okAtStart |-> {},
                    busyAtStart |-> {}, aborted |-> FALSE]

NoPut == [wasFull |-> FALSE, result |-> "none", same |-> TRUE]

\* prev: the call before this one, by name and path; cleared: per path, what
\* its row was ("no record", "failing", "blacklisted") when it was last cleared
\* with no record_failure since, "no" otherwise; wasCleared: cleared[path] as
\* the call found it; raised: the repository call raised inside _on_success
NoLedgerCall == [call |-> "none", path |-> ".", max |-> 0, before |-> NoRow,
                 ret |-> NoRow, flag |-> FALSE, uniform |-> [p \in LedgerPaths |-> 0],
                 prev |-> <<"none", ".">>, cleared |-> [p \in LedgerPaths |-> "no"],
                 wasCleared |-> "no", raised |-> FALSE]

\* no chunk_markdown call under way
NoChunking == [pc |-> "idle", tokens |-> 0, chunk_size |-> 0, overlap |-> 0,
               start |-> 0, chunks |-> <<>>]

\* no add_embeddings call made yet; of a call: its arguments, the chunks the
\* embeddings were made from, _embedding_dim and the rows before it, and
\* whether it raised ValueError
NoAdd == [document_id |-> 0, chunks |-> <<>>, embeddings |-> <<>>, dimBefore |-> 0,
          rowsBefore |-> <<>>, raised |-> FALSE]

\* VectorStore(path, None) on an empty directory: no dimension, no table
EmptyStore == [dim |-> 0, rows |-> <<>>, last |-> NoAdd]

\* a thread outside any failure-ledger call; inside one: op and path are the
\* call, row what its SELECT returned, ret and flag what it returns
IdleRepo == [pc |-> "idle", op |-> "none", path |-> ".", row |-> NoRow, ret |-> NoRow,
             flag |-> FALSE]

\* lock: the thread that owns MarkdownRepository._lock, 0 when it is free;
\* calls: the calls begun so far; recorded: per path, the record_failure calls
\* that have written since the last clear_failures for it deleted its row
NoRepoCalls == [lock |-> 0, th |-> [t \in RepoThreads |-> IdleRepo], calls |-> 0,
                recorded |-> [p \in LedgerPaths |-> 0]]

\* the JobStatus listed under each key of the dict status_payload returns
\* (queue, in_progress, completed, failed)
GroupStatus == <<"queued", "processing", "completed", "failed">>

\* no status_payload call under way; of a call: snap is the list copied under
\* the lock (the job objects themselves, here their ids), g and i the list
\* comprehension and its place in snap, groups the four lists built so far
NoStatus == [pc |-> "idle", snap |-> <<>>, g |-> 1, i |-> 1,
             groups |-> [g \in 1..4 |-> <<>>], calls |-> 0]

\* no task metadata under way; of a task: task is its metadata field, base
\* what that field was when the task was built, stat how path.stat() ended,
\* metadata the dict _collect_metadata returned, stored the text of the
\* metadata column of the Document Record
NoMetadata == [pc |-> "idle", task |-> <<>>, base |-> <<>>, stat |-> "none",
               metadata |-> <<>>, stored |-> [null |-> TRUE, pairs |-> <<>>]]

InitBase(b) ==
    /\ rp = NoRepoCalls
    /\ st = NoStatus
    /\ budget = b
    /\ queue = <<>>
    /\ unfinished = 0
    /\ wk = [t \in Threads |-> IF t = Caller THEN IdleCaller ELSE IdleWorker]
    /\ docs = <<>>
    /\ indexed = {}
    /\ failed = [p \in LedgerPaths |-> NoRow]
    /\ jobs = [j \in JobIds |-> NoJob]
    /\ nUploads = 0
    /\ nAccepted = 0
    /\ fileContent = [p \in Paths |-> IF p = ApiPath THEN 2 ELSE 1]
    /\ up = [pc |-> "idle", task |-> NoTask]
    /\ cl = [pc |-> "idle", task |-> NoTask, timeout |-> FALSE]
    /\ sd = [called |-> FALSE, left |-> 0, wait |-> FALSE, returned |-> FALSE, busy |-> {}]
    /\ wt = SleepingWatcher
    /\ hist = [p \in WatchPaths |-> NoHist]
    /\ lastPut = NoPut
    /\ led = NoLedgerCall

\* PDFProcessor(settings) with the default backends, __init__ having returned
ReadyProcessor == [pc |-> "ready", parser_backend |-> "pymupdf",
                   embedding_backend |-> "local"]

InitWith(b) ==
    /\ InitBase(b)
    /\ ck = NoChunking
    /\ vs = EmptyStore
    /\ pr = ReadyProcessor
    /\ md = NoMetadata

Init == InitWith(MaxTasks)

\* the same start for a run in which only the watcher feeds the queue
InitWatch == InitWith(MaxWatchTasks)

\* the same start for a run about the on_progress hook
InitPipeline == InitWith(MaxPipelineTasks)

\* the same start for a run in which only uploads feed the queue
InitUpload == InitWith(MaxUploads)

\* the same start for a short run in which the watcher and uploads feed the queue
InitService == InitWith(MaxServiceTasks)

\* the same start for a shorter run in which only the watcher feeds the queue
InitScan == InitWith(MaxScanTasks)

\* the same start for a run of the command line
InitSync == InitWith(MaxSyncTasks)

\* the same start for a run in which the watcher and uploads feed the queue
InitIngest == InitWith(MaxIngestTasks)

(***************************************************************************)
(* PDFProcessor.submit_task and its callers                                *)
(***************************************************************************)
\* what one submit_task call leaves behind: the queue, the count of
\* unfinished tasks and the record of the call
SubmitTask(task, block) ==
    LET r == Put(queue, task, block)
    IN  /\ queue' = r.q
        /\ unfinished' = IF r.result = "ok" THEN unfinished + 1 ELSE unfinished
        /\ lastPut' = IF block THEN lastPut
                       ELSE [wasFull |-> IsFull(queue), result |-> r.result,
                             same |-> (r.q = queue)]

\* a caller asleep in Queue.put is woken once a slot is free
ResumePut(task) ==
    /\ ~IsFull(queue)
    /\ queue' = Append(queue, task)
    /\ unfinished' = unfinished + 1
    /\ UNCHANGED lastPut

\* ProcessingManager.enqueue: the job is stored as queued, then the task is
\* handed to submit_task(task), which blocks while the queue is full
UploadEnqueue ==
    /\ up.pc = "idle"
    /\ nUploads < MaxUploads
    /\ ~IsFull(queue) => nAccepted < budget
    /\ LET j == nUploads + 1
           task == UploadTask(j)
       IN  /\ nUploads' = j
           /\ jobs' = [jobs EXCEPT ![j] = [status |-> "queued", progress |-> 0,
                                           document_id |-> 0, error |-> "none"]]
           /\ SubmitTask(task, TRUE)
           /\ up' = IF Put(queue, task, TRUE).result = "ok"
                    THEN [pc |-> "idle", task |-> NoTask]
                    ELSE [pc |-> "putting", task |-> task]
           /\ nAccepted' = IF Put(queue, task, TRUE).result = "ok"
                            THEN nAccepted + 1 ELSE nAccepted
    /\ UNCHANGED <<budget, wk, docs, indexed, failed, fileContent, cl, sd, wt, hist, led,
                   ck, vs, pr, rp, st, md>>

\* the upload handler returns from submit_task when a slot came free
UploadResume ==
    /\ up.pc = "putting"
    /\ nAccepted < budget
    /\ ResumePut(up.task)
    /\ up' = [pc |-> "idle", task |-> NoTask]
    /\ nAccepted' = nAccepted + 1
    /\ UNCHANGED <<wk, docs, indexed, failed, jobs, nUploads, budget,
                   fileContent, cl, sd, wt, hist, led, ck, vs, pr, rp, st, md>>

\* submit_task(task, block=.., timeout=..) called by any other client, the
\* task's hooks raising as one of faults says
ClientSubmitWith(faults) ==
    /\ cl.pc = "idle"
    /\ \E r \in faults, block \in BOOLEAN, timeout \in BOOLEAN :
         LET task == ApiTask(r)
             res == Put(queue, task, block).result
         IN  /\ res = "ok" => nAccepted < budget
             /\ SubmitTask(task, block)
             /\ cl' = IF res = "wait"
                      THEN [pc |-> "putting", task |-> task, timeout |-> timeout]
                      ELSE [pc |-> "idle", task |-> NoTask, timeout |-> FALSE]
             /\ nAccepted' = IF res = "ok" THEN nAccepted + 1 ELSE nAccepted
    /\ UNCHANGED <<budget, wk, docs, indexed, failed, jobs, nUploads, fileContent, up,
                   sd, wt, hist, led, ck, vs, pr, rp, st, md>>

\* a client whose on_start, on_success or on_error hook may raise
ClientSubmit == ClientSubmitWith(HookFaults)

\* a client whose on_progress hook may raise
ClientSubmitProgress == ClientSubmitWith(ProgressFaults)

\* the client's blocking put gets its slot
ClientResume ==
    /\ cl.pc = "putting"
    /\ nAccepted < budget
    /\ ResumePut(cl.task)
    /\ cl' = [pc |-> "idle", task |-> NoTask, timeout |-> FALSE]
    /\ nAccepted' = nAccepted + 1
    /\ UNCHANGED <<wk, docs, indexed, failed, jobs, nUploads, budget,
                   fileContent, up, sd, wt, hist, led, ck, vs, pr, rp, st, md>>

\* the client's put(block=True, timeout=t) runs out of time: queue.Full
ClientTimeout ==
    /\ cl.pc = "putting"
    /\ cl.timeout
    /\ IsFull(queue)
    /\ cl' = [pc |-> "idle", task |-> NoTask, timeout |-> FALSE]
    /\ UNCHANGED <<lastPut, nAccepted>>
    /\ UNCHANGED <<budget, queue, unfinished, wk, docs, indexed, failed, jobs, nUploads,
                   fileContent, up, sd, wt, hist, led, ck, vs, pr, rp, st, md>>

\* PDFProcessor.shutdown(wait) is called: one sentinel per worker is to be put
ShutdownWith(wait) ==
    /\ ~sd.called
    /\ sd' = [called |-> TRUE, left |-> WorkerCount, wait |-> wait, returned |-> FALSE,
              busy |-> {w \in Workers : wk[w].task # NoTask}]
    /\ UNCHANGED <<queue, unfinished, wk, docs, indexed, failed, jobs, nUploads,
                   nAccepted, budget, fileContent, up, cl, wt, hist, lastPut, led,
                   ck, vs, pr, rp, st, md>>

\* shutdown(), wait being False by default
Shutdown == ShutdownWith(FALSE)

\* shutdown(wait=True)
ShutdownWait == ShutdownWith(TRUE)

\* shutdown's loop: self._task_queue.put(sentinel), a blocking put
ShutdownPut ==
    /\ sd.called
    /\ sd.left > 0
    /\ ~IsFull(queue)
    /\ queue' = Append(queue, Sentinel)
    /\ unfinished' = unfinished + 1
    /\ sd' = [sd EXCEPT !.left = sd.left - 1]
    /\ UNCHANGED <<wk, docs, indexed, failed, jobs, nUploads, nAccepted, budget,
                   fileContent, up, cl, wt, hist, lastPut, led, ck, vs, pr, rp, st, md>>

\* a thread that has ended: join() on it returns
Ended(w) == wk[w].pc \in {"exited", "dead"}

\* the sentinels are in: if wait, thread.join() for every worker; return
ShutdownReturn ==
    /\ sd.called
    /\ sd.left = 0
    /\ ~sd.returned
    /\ sd.wait => \A w \in Workers : Ended(w)
    /\ sd' = [sd EXCEPT !.returned = TRUE]
    /\ UNCHANGED <<queue, unfinished, wk, docs, indexed, failed, jobs, nUploads, nAccepted,
                   budget, fileContent, up, cl, wt, hist, lastPut, led, ck, vs, pr,
                   rp, st, md>>

(***************************************************************************)
(* PDFProcessor._worker_loop, one action per step of the loop body         *)
(***************************************************************************)
\* _update_job testing "if progress:" where the code tests "is not None"
UpdateJobTruthyProgress(js, j, status, progress, document_id, error) ==
    IF j \notin JobIds \/ js[j].status = "none" THEN js
    ELSE [js EXCEPT ![j] = [status |-> status,
                            progress |-> IF progress # 0 THEN progress
                                         ELSE js[j].progress,
                            document_id |-> IF document_id # 0 THEN document_id
                                            ELSE js[j].document_id,
                            error |-> IF error # "none" THEN error ELSE js[j].error]]

\* ProcessingManager._update_job: an unknown job id is ignored
UpdateJob(js, j, status, progress, document_id, error) ==
    IF j \notin JobIds \/ js[j].status = "none" THEN js
    ELSE [js EXCEPT ![j] = [status |-> status,
                            progress |-> progress,
                            document_id |-> IF document_id # 0 THEN document_id
                                            ELSE js[j].document_id,
                            error |-> IF error # "none" THEN error ELSE js[j].error]]

\* the on_start hook of an upload task leaving the status as it is
JobStartKeepsStatus(js, task) ==
    IF task.job_id = "upload"
    THEN UpdateJob(js, task.job, js[task.job].status, 5, 0, "none")
    ELSE js

\* the on_start hook of an upload task: status processing, progress 5
JobStart(js, task) ==
    IF task.job_id = "upload"
    THEN UpdateJob(js, task.job, "processing", 5, 0, "none")
    ELSE js

\* the on_progress hook of an upload task, called by _emit_progress
JobProgress(js, task, progress) ==
    IF task.job_id = "upload"
    THEN UpdateJob(js, task.job, "processing", progress, 0, "none")
    ELSE js

\* task = self._task_queue.get(); the sentinel makes the worker return (its
\* finally clause marks it done)
WorkerGet(w) ==
    /\ wk[w].pc = "get"
    /\ queue # <<>>
    /\ queue' = Tail(queue)
    /\ IF Head(queue).job_id = "__shutdown__"
       THEN /\ wk' = [wk EXCEPT ![w] = [IdleWorker EXCEPT !.pc = "exited"]]
            /\ unfinished' = unfinished - 1
       ELSE /\ wk' = [wk EXCEPT ![w] = [IdleWorker EXCEPT !.pc = "on_start",
                                                          !.task = Head(queue)]]
            /\ UNCHANGED unfinished
    /\ UNCHANGED <<docs, indexed, failed, jobs, nUploads, nAccepted, budget, fileContent,
                   up, cl, sd, wt, hist, lastPut, led, ck, vs, pr, rp, st, md>>

\* if task.on_start: task.on_start(task); an exception goes to the except clause
WorkerOnStart(w) ==
    /\ wk[w].pc = "on_start"
    /\ LET t == wk[w].task
       IN  /\ wk' = [wk EXCEPT ![w] =
                 IF "on_start" \in t.raises
                 THEN [@ EXCEPT !.pc = "on_error", !.exc = "HookError", !.starts = @ + 1]
                 ELSE [@ EXCEPT !.pc = "pipeline",
                                !.starts = IF t.hooks THEN @ + 1 ELSE @]]
           /\ jobs' = JobStart(jobs, t)
    /\ UNCHANGED <<queue, unfinished, docs, indexed, failed, nUploads, nAccepted, budget,
                   fileContent, up, cl, sd, wt, hist, lastPut, led, ck, vs, pr, rp, st, md>>

\* one entry of the trace a worker keeps of _execute_pipeline: a call made to
\* a collaborator, or a progress event handed to _emit_progress
Call(name) == [kind |-> "call", name |-> name, progress |-> 0]
Event(progress, stage) == [kind |-> "emit", name |-> stage, progress |-> progress]

\* _emit_progress calling the hook outside any try/except
EmitProgressUnguarded(task, log, progress, stage) ==
    IF ~task.hooks THEN [log |-> log, exc |-> "none"]
    ELSE [log |-> Append(log, Event(progress, stage)),
          exc |-> IF "on_progress" \in task.raises THEN "HookError" ELSE "none"]

\* PDFProcessor._emit_progress: if the task has the hook it is called inside
\* try/except Exception; log gets the event handed to the hook, exc is the
\* exception that leaves _emit_progress, "none" when there is none
EmitProgress(task, log, progress, stage) ==
    LET raised == "on_progress" \in task.raises
        caught == raised
    IN  IF ~task.hooks THEN [log |-> log, exc |-> "none"]
        ELSE [log |-> Append(log, Event(progress, stage)),
              exc |-> IF raised /\ ~caught THEN "HookError" ELSE "none"]

\* an exception on its way out of _execute_pipeline to the except clause
Raise(w, exc, log) == [wk[w] EXCEPT !.pc = "on_error", !.exc = exc,
                                    !.piped = TRUE, !.log = log]

\* _execute_pipeline up to the duplicate check: exists, metadata (15%), parse
\* (45%), hash, get_by_hash; a duplicate returns the existing record (100%)
WorkerPipeline(w) ==
    /\ wk[w].pc = "pipeline"
    /\ LET t == wk[w].task
           l0 == Append(wk[w].log, Call("exists"))
           e1 == EmitProgress(t, l0, 15, "metadata")
           l1 == Append(e1.log, Call("parse"))
           e2 == EmitProgress(t, l1, 45, "parsed")
           h == ComputeHash(ExtractMarkdown(t.source_path))
           duplicate == GetByHash(docs, h)
           l2 == Append(e2.log, Call("get_by_hash"))
           e3 == EmitProgress(t, l2, 100, "duplicate")
       IN  \/ /\ wk' = [wk EXCEPT ![w] = Raise(w, "FileNotFoundError", l0)]
              /\ UNCHANGED jobs
           \/ IF e1.exc # "none"
              THEN /\ wk' = [wk EXCEPT ![w] = Raise(w, e1.exc, e1.log)]
                   /\ jobs' = JobProgress(jobs, t, 15)
              ELSE \/ /\ wk' = [wk EXCEPT ![w] = Raise(w, "ConversionError", l1)]
                      /\ jobs' = JobProgress(jobs, t, 15)
                   \/ IF e2.exc # "none"
                      THEN /\ wk' = [wk EXCEPT ![w] = Raise(w, e2.exc, e2.log)]
                           /\ jobs' = JobProgress(jobs, t, 45)
                      ELSE IF duplicate = 0
                      THEN /\ wk' = [wk EXCEPT ![w] = [@ EXCEPT !.pc = "save", !.log = l2]]
                           /\ jobs' = JobProgress(jobs, t, 45)
                      ELSE IF e3.exc # "none"
                      THEN /\ wk' = [wk EXCEPT ![w] = Raise(w, e3.exc, e3.log)]
                           /\ jobs' = JobProgress(jobs, t, 100)
                      ELSE /\ wk' = [wk EXCEPT ![w] = [@ EXCEPT !.pc = "on_success",
                                                                !.rec = duplicate,
                                                                !.log = e3.log]]
                           /\ jobs' = JobProgress(jobs, t, 100)
    /\ UNCHANGED <<queue, unfinished, docs, indexed, failed, nUploads, nAccepted, budget,
                   fileContent, up, cl, sd, wt, hist, lastPut, led, ck, vs, pr, rp, st, md>>

\* record = self.markdown_repository.save(...); chunks = _chunk_markdown (65%)
WorkerSave(w) ==
    /\ wk[w].pc = "save"
    /\ LET t == wk[w].task
           h == ComputeHash(ExtractMarkdown(t.source_path))
           l0 == Append(Append(wk[w].log, Call("save")), Call("chunk"))
           e == EmitProgress(t, l0, 65, "chunked")
       IN  /\ docs' = SaveRow(docs, t.source_path, h)
           /\ jobs' = JobProgress(jobs, t, 65)
           /\ wk' = [wk EXCEPT ![w] =
                 IF e.exc # "none"
                 THEN [Raise(w, e.exc, e.log) EXCEPT !.rec = Len(docs) + 1]
                 ELSE [@ EXCEPT !.pc = "embed", !.rec = Len(docs) + 1, !.log = e.log]]
    /\ UNCHANGED <<queue, unfinished, indexed, failed, nUploads, nAccepted, budget,
                   fileContent, up, cl, sd, wt, hist, lastPut, led, ck, vs, pr, rp, st, md>>

\* _execute_pipeline's embedding step without its progress event
WorkerEmbedSilent(w) ==
    /\ wk[w].pc = "embed"
    /\ wk' = [wk EXCEPT ![w] = [@ EXCEPT !.pc = "index",
                                         !.log = Append(wk[w].log, Call("embed"))]]
    /\ UNCHANGED <<queue, unfinished, docs, indexed, failed, jobs, nUploads, nAccepted,
                   budget, fileContent, up, cl, sd, wt, hist, lastPut, led, ck, vs, pr,
                   rp, st, md>>

\* embeddings = self.embedding_manager.embed_documents(chunks) (85%); the
\* chunks of a text are not empty, so that a backend name embed_documents
\* does not know makes it raise ValueError("Unsupported embedding backend")
WorkerEmbed(w) ==
    /\ wk[w].pc = "embed"
    /\ LET t == wk[w].task
           l0 == Append(wk[w].log, Call("embed"))
           e == EmitProgress(t, l0, 85, "embedded")
       IN  IF pr.embedding_backend \notin EmbeddingBackends
           THEN /\ wk' = [wk EXCEPT ![w] = Raise(w, "ValueError", l0)]
                /\ UNCHANGED jobs
           ELSE \/ /\ wk' = [wk EXCEPT ![w] = Raise(w, "EmbeddingError", l0)]
                   /\ UNCHANGED jobs
                \/ /\ wk' = [wk EXCEPT ![w] =
                         IF e.exc # "none" THEN Raise(w, e.exc, e.log)
                         ELSE [@ EXCEPT !.pc = "index", !.log = e.log]]
                   /\ jobs' = JobProgress(jobs, t, 85)
    /\ UNCHANGED <<queue, unfinished, docs, indexed, failed, nUploads, nAccepted, budget,
                   fileContent, up, cl, sd, wt, hist, lastPut, led, ck, vs, pr, rp, st, md>>

\* self.vector_store.add_embeddings(record.id, embeddings), which raises
\* ValueError on a vector of another dimension; (100%); return record
WorkerIndex(w) ==
    /\ wk[w].pc = "index"
    /\ LET t == wk[w].task
           l0 == Append(wk[w].log, Call("add_embeddings"))
           e == EmitProgress(t, l0, 100, "completed")
       IN  \/ /\ wk' = [wk EXCEPT ![w] = Raise(w, "ValueError", l0)]
              /\ UNCHANGED <<indexed, jobs>>
           \/ /\ wk' = [wk EXCEPT ![w] =
                    IF e.exc # "none" THEN Raise(w, e.exc, e.log)
                    ELSE [@ EXCEPT !.pc = "on_success", !.log = e.log]]
              /\ indexed' = indexed \cup {wk[w].rec}
              /\ jobs' = JobProgress(jobs, t, 100)
    /\ UNCHANGED <<queue, unfinished, docs, failed, nUploads, nAccepted, budget,
                   fileContent, up, cl, sd, wt, hist, lastPut, led, ck, vs, pr, rp, st, md>>

\* DirectoryWatcher._on_success: the failed_files row of the path after
\* clear_failures(path); when clear_failures raises the row stays and the
\* exception is logged
WatcherOnSuccess(row, raised) == IF raised THEN row ELSE ClearFailures(row)

\* if task.on_success: task.on_success(task, record); an exception of the hook
\* goes to the except clause
WorkerOnSuccess(w) ==
    /\ wk[w].pc = "on_success"
    /\ LET t == wk[w].task
           p == t.source_path
       IN  /\ wk' = [wk EXCEPT ![w] =
                 IF "on_success" \in t.raises
                 THEN [@ EXCEPT !.pc = "on_error", !.exc = "HookError", !.succ = @ + 1]
                 ELSE [@ EXCEPT !.pc = "task_done",
                                !.succ = IF t.hooks THEN @ + 1 ELSE @]]
           /\ jobs' = IF t.job_id = "upload"
                      THEN UpdateJob(jobs, t.job, "completed", 100, wk[w].rec, "none")
                      ELSE jobs
           \* DirectoryWatcher._on_success: clear_failures, an exception of which
           \* is logged and dropped
           /\ IF t.job_id = "watcher"
              THEN /\ \E raised \in BOOLEAN :
                        failed' = [failed EXCEPT ![p] = WatcherOnSuccess(@, raised)]
                   /\ hist' = [hist EXCEPT ![p] = [@ EXCEPT !.succ = TRUE, !.fails = 0]]
              ELSE UNCHANGED <<failed, hist>>
    /\ UNCHANGED <<queue, unfinished, docs, indexed, nUploads, nAccepted, budget,
                   fileContent, up, cl, sd, wt, lastPut, led, ck, vs, pr, rp, st, md>>

\* _on_error leaving a vanished file out of the ledger
WatcherOnErrorSkipsMissing(row, exc, raised) ==
    IF raised \/ exc = "FileNotFoundError" THEN row
    ELSE RecordFailure(row, MaxProcessAttempts)

\* _on_error calling record_failure a second time for the same failure
WatcherOnErrorTwice(row, exc, raised) ==
    IF raised THEN row
    ELSE RecordFailure(RecordFailure(row, MaxProcessAttempts), MaxProcessAttempts)

\* DirectoryWatcher._on_error: the failed_files row of the path after
\* record_failure(path, str(exc), max_process_attempts), whatever exc is; when
\* record_failure raises the row stays and the exception is logged
WatcherOnError(row, exc, raised) ==
    IF raised THEN row ELSE RecordFailure(row, MaxProcessAttempts)

\* except Exception as exc: if task.on_error: task.on_error(task, exc); an
\* exception of the hook leaves the except clause and the loop
WorkerOnError(w) ==
    /\ wk[w].pc = "on_error"
    /\ LET t == wk[w].task
           p == t.source_path
       IN  /\ jobs' = IF t.job_id = "upload"
                      THEN UpdateJob(jobs, t.job, "failed", 0, 0, wk[w].exc)
                      ELSE jobs
           \* DirectoryWatcher._on_error: record_failure, an exception of which
           \* (raised) is logged and dropped
           /\ \E raised \in IF t.job_id = "watcher" THEN BOOLEAN ELSE {FALSE} :
                /\ wk' = [wk EXCEPT ![w] = [@ EXCEPT !.pc = "task_done",
                                                     !.errs = IF t.hooks THEN @ + 1
                                                              ELSE @,
                                                     !.errArg = wk[w].exc,
                                                     !.escaped = ("on_error" \in t.raises),
                                                     !.ledgerRaised = raised]]
                /\ IF t.job_id = "watcher"
                   THEN /\ failed' = [failed EXCEPT ![p] =
                                          WatcherOnError(@, wk[w].exc, raised)]
                        /\ hist' = [hist EXCEPT ![p] = [@ EXCEPT !.fails = @ + 1]]
                   ELSE UNCHANGED <<failed, hist>>
    /\ UNCHANGED <<queue, unfinished, docs, indexed, nUploads, nAccepted, budget,
                   fileContent, up, cl, sd, wt, lastPut, led, ck, vs, pr, rp, st, md>>

\* finally: self._task_queue.task_done(); then the next iteration, or the end
\* of the thread when an exception is on its way out
WorkerTaskDone(w) ==
    /\ wk[w].pc = "task_done"
    /\ unfinished' = unfinished - 1
    /\ wk' = [wk EXCEPT ![w] = IF wk[w].escaped
                               THEN [IdleWorker EXCEPT !.pc = "dead"]
                               ELSE IdleWorker]
    /\ UNCHANGED <<queue, docs, indexed, failed, jobs, nUploads, nAccepted, budget,
                   fileContent, up, cl, sd, wt, hist, lastPut, led, ck, vs, pr, rp, st, md>>

(***************************************************************************)
(* PDFProcessor.process_pdf: the pipeline on the calling thread (main.py)  *)
(***************************************************************************)
\* process_pdf handing its task to the queue and returning at once
ProcessPdfEnqueues ==
    /\ pr.pc = "ready"
    /\ wk[Caller].pc \in {"idle", "returned", "raised"}
    /\ ~IsFull(queue)
    /\ nAccepted < budget
    /\ queue' = Append(queue, SyncTask)
    /\ unfinished' = unfinished + 1
    /\ nAccepted' = nAccepted + 1
    /\ wk' = [wk EXCEPT ![Caller] = [IdleCaller EXCEPT !.pc = "returned"]]
    /\ UNCHANGED <<docs, indexed, failed, jobs, nUploads, budget, fileContent, up, cl, sd,
                   wt, hist, lastPut, led, ck, vs, pr, rp, st, md>>

\* process_pdf(pdf_path): the task is built with no hook and _execute_pipeline
\* is entered by the calling thread itself
ProcessPdf ==
    /\ pr.pc = "ready"
    /\ wk[Caller].pc \in {"idle", "returned", "raised"}
    /\ wk' = [wk EXCEPT ![Caller] = [IdleCaller EXCEPT !.pc = "pipeline",
                                                       !.task = SyncTask]]
    /\ UNCHANGED <<queue, unfinished, nAccepted>>
    /\ UNCHANGED <<docs, indexed, failed, jobs, nUploads, budget, fileContent, up, cl, sd,
                   wt, hist, lastPut, led, ck, vs, pr, rp, st, md>>

\* return self._execute_pipeline(task): the record is returned to the caller,
\* an exception of the pipeline reaches the caller as it is
ProcessPdfReturn ==
    /\ wk[Caller].pc \in {"on_success", "on_error"}
    /\ wk' = [wk EXCEPT ![Caller] =
                 [@ EXCEPT !.pc = IF wk[Caller].pc = "on_success" THEN "returned"
                                  ELSE "raised"]]
    /\ UNCHANGED <<queue, unfinished, docs, indexed, failed, jobs, nUploads, nAccepted,
                   budget, fileContent, up, cl, sd, wt, hist, lastPut, led, ck, vs, pr,
                   rp, st, md>>

(***************************************************************************)
(* DirectoryWatcher: _run sleeps and scans for ever; _scan_once looks at   *)
(* every candidate once: get_by_source_path, is_blacklisted, submit_task   *)
(***************************************************************************)
\* a watcher task for the path is queued or in a worker's hands
Outstanding(p) ==
    \/ \E i \in 1..Len(queue) : queue[i] = WatcherTask(p)
    \/ \E w \in Workers : wk[w].task = WatcherTask(p)

NextCandidate == [wt EXCEPT !.pc = "scan", !.cur = ".", !.existing = FALSE,
                            !.hadRecord = FALSE, !.wasBlacklisted = FALSE]

\* time.sleep(poll) is over: _scan_once starts with watch_dir.rglob("*.pdf")
WatcherWake ==
    /\ wt.pc = "sleep"
    /\ wt' = [SleepingWatcher EXCEPT !.pc = "scan", !.todo = WatchPaths,
                                     !.okAtStart = {p \in WatchPaths : hist[p].succ},
                                     !.busyAtStart = {p \in WatchPaths : Outstanding(p)}]
    /\ UNCHANGED <<queue, unfinished, wk, docs, indexed, failed, jobs, nUploads,
                   nAccepted, budget, fileContent, up, cl, sd, hist, lastPut, led,
                   ck, vs, pr, rp, st, md>>

\* the next candidate: existing = get_by_source_path(path), None when the
\* query raises; a record makes the scan go on to the next candidate
WatcherLookup ==
    /\ wt.pc = "scan"
    /\ \E p \in wt.todo :
         LET found == GetBySourcePath(docs, p) # 0
         IN  \E existing \in {found, FALSE} :
               wt' = IF existing
                     THEN [NextCandidate EXCEPT !.todo = wt.todo \ {p}]
                     ELSE [wt EXCEPT !.pc = "blacklist", !.todo = wt.todo \ {p},
                                     !.cur = p, !.existing = existing,
                                     !.hadRecord = found]
    /\ UNCHANGED <<queue, unfinished, wk, docs, indexed, failed, jobs, nUploads,
                   nAccepted, budget, fileContent, up, cl, sd, hist, lastPut, led,
                   ck, vs, pr, rp, st, md>>

\* is_blacklisted(path): True skips the candidate; False, or an exception
\* (logged), lets the scan go on to submit it
WatcherBlacklist ==
    /\ wt.pc = "blacklist"
    /\ LET listed == IsBlacklisted(failed[wt.cur])
       IN  \E answer \in {listed, FALSE} :
             wt' = IF answer
                   THEN NextCandidate
                   ELSE [wt EXCEPT !.pc = "submit", !.wasBlacklisted = listed]
    /\ UNCHANGED <<queue, unfinished, wk, docs, indexed, failed, jobs, nUploads,
                   nAccepted, budget, fileContent, up, cl, sd, hist, lastPut, led,
                   ck, vs, pr, rp, st, md>>

\* except queue.Full putting the file back among the candidates of this scan
DeferFileRetry(w) == [NextCandidate EXCEPT !.todo = w.todo \cup {w.cur}]

\* except queue.Full: a warning, time.sleep(watch_poll_interval), and the for
\* loop goes on to the candidate after this one
DeferFile(w) == NextCandidate

\* self.processor.submit_task(task, block=False); on queue.Full the file is
\* left for a later scan (warning, time.sleep) and the loop goes on
WatcherSubmit ==
    /\ wt.pc = "submit"
    /\ LET p == wt.cur
           res == Put(queue, WatcherTask(p), FALSE).result
       IN  /\ res = "ok" => nAccepted < budget
           /\ SubmitTask(WatcherTask(p), FALSE)
           /\ nAccepted' = IF res = "ok" THEN nAccepted + 1 ELSE nAccepted
           /\ hist' = IF res = "ok"
                      THEN [hist EXCEPT ![p] = [@ EXCEPT
                                 !.overlap = @ \/ Outstanding(p) \/ p \in wt.busyAtStart,
                                 !.deferred = IF @ = "no" THEN "no" ELSE "done"]]
                      ELSE [hist EXCEPT ![p] = [@ EXCEPT
                                 !.deferred = IF @ = "done" THEN "done" ELSE "full"]]
           /\ wt' = IF res = "Full" THEN DeferFile(wt) ELSE NextCandidate
    /\ UNCHANGED <<budget, wk, docs, indexed, failed, jobs, nUploads, fileContent, up,
                   cl, sd, led, ck, vs, pr, rp, st, md>>

\* every candidate was looked at: _scan_once returns, _run sleeps
WatcherScanEnd ==
    /\ wt.pc = "scan"
    /\ wt.todo = {}
    /\ wt' = SleepingWatcher
    /\ UNCHANGED <<queue, unfinished, wk, docs, indexed, failed, jobs, nUploads,
                   nAccepted, budget, fileContent, up, cl, sd, hist, lastPut, led,
                   ck, vs, pr, rp, st, md>>

\* _run without its try/except: the exception ends the watcher thread
WatcherAbortUncaught ==
    /\ wt.pc = "scan"
    /\ wt.todo # {}
    /\ wt' = [SleepingWatcher EXCEPT !.pc = "dead", !.aborted = TRUE]
    /\ UNCHANGED <<queue, unfinished, wk, docs, indexed, failed, jobs, nUploads,
                   nAccepted, budget, fileContent, up, cl, sd, hist, lastPut, led, ck, vs, pr,
                   rp, st, md>>

\* an exception raised while the next candidate is examined (path.is_file(),
\* path.resolve(), the rglob iterator) leaves _scan_once; _run catches it, logs
\* it and sleeps
WatcherAbort ==
    /\ wt.pc = "scan"
    /\ wt.todo # {}
    /\ wt' = [SleepingWatcher EXCEPT !.aborted = TRUE]
    /\ UNCHANGED <<queue, unfinished, wk, docs, indexed, failed, jobs, nUploads,
                   nAccepted, budget, fileContent, up, cl, sd, hist, lastPut, led, ck, vs, pr,
                   rp, st, md>>

(***************************************************************************)
(* The system                                                              *)
(***************************************************************************)
\* the worker threads
WorkerStep ==
    \/ \E w \in Workers : WorkerGet(w)
    \/ \E w \in Workers : WorkerOnStart(w)
    \/ \E w \in Workers : WorkerPipeline(w)
    \/ \E w \in Workers : WorkerSave(w)
    \/ \E w \in Workers : WorkerEmbed(w)
    \/ \E w \in Workers : WorkerIndex(w)
    \/ \E w \in Workers : WorkerOnSuccess(w)
    \/ \E w \in Workers : WorkerOnError(w)
    \/ \E w \in Workers : WorkerTaskDone(w)

\* the watcher thread
WatcherStep ==
    \/ WatcherWake
    \/ WatcherLookup
    \/ WatcherBlacklist
    \/ WatcherSubmit
    \/ WatcherScanEnd
    \/ WatcherAbort

\* the thread inside process_pdf
SyncStep ==
    \/ ProcessPdf
    \/ WorkerPipeline(Caller)
    \/ WorkerSave(Caller)
    \/ WorkerEmbed(Caller)
    \/ WorkerIndex(Caller)
    \/ ProcessPdfReturn

\* PDFProcessor with WATCH_ENABLED=false and no upload: direct callers of
\* submit_task and shutdown feed the queue, the workers drain it
Next ==
    \/ ClientSubmit
    \/ ClientResume
    \/ ClientTimeout
    \/ Shutdown
    \/ ShutdownPut
    \/ WorkerStep

Spec == Init /\ [][Next]_vars

\* the same pool, its clients' on_progress hooks raising or not
NextPipeline ==
    \/ ClientSubmitProgress
    \/ ClientResume
    \/ ClientTimeout
    \/ WorkerStep

SpecPipeline == InitPipeline /\ [][NextPipeline]_vars

\* the same pool shut down with shutdown(wait=True)
NextShutdown ==
    \/ ClientSubmit
    \/ ClientResume
    \/ ClientTimeout
    \/ ShutdownWait
    \/ ShutdownPut
    \/ ShutdownReturn
    \/ WorkerStep

SpecShutdown == Init /\ [][NextShutdown]_vars

\* WATCH_ENABLED=true and no other caller: the watcher feeds the queue
NextWatch ==
    \/ WatcherStep
    \/ WorkerStep

SpecWatch == InitWatch /\ [][NextWatch]_vars

\* the same over a shorter run
SpecScan == InitScan /\ [][NextWatch]_vars

\* the watcher and the upload entry point feed the queue
NextIngest ==
    \/ UploadEnqueue
    \/ UploadResume
    \/ WatcherStep
    \/ WorkerStep

SpecIngest == InitIngest /\ [][NextIngest]_vars

\* the same two entry points over a short run; an upload handler that found
\* the queue full stays asleep in put() to the end of such a run
NextService ==
    \/ UploadEnqueue
    \/ WatcherStep
    \/ WorkerStep

SpecService == InitService /\ [][NextService]_vars

\* the steps of one worker thread
WorkerThread(w) ==
    \/ WorkerGet(w)
    \/ WorkerOnStart(w)
    \/ WorkerPipeline(w)
    \/ WorkerSave(w)
    \/ WorkerEmbed(w)
    \/ WorkerIndex(w)
    \/ WorkerOnSuccess(w)
    \/ WorkerOnError(w)
    \/ WorkerTaskDone(w)

\* the watcher thread and every worker thread are daemon threads of one
\* process: each of them is scheduled as long as it can take a step
SpecScanFair ==
    InitScan /\ [][NextWatch]_vars /\ WF_vars(WatcherStep)
             /\ \A w \in Workers : WF_vars(WorkerThread(w))

\* the same start for a short run of uploads beside shutdown
InitPool == InitWith(MaxPoolTasks)

\* uploads feed the queue and shutdown() puts its sentinels into it; an
\* upload handler that found the queue full stays asleep in put() to the end
\* of such a run
NextPool ==
    \/ UploadEnqueue
    \/ Shutdown
    \/ ShutdownPut
    \/ WorkerStep

SpecPool == InitPool /\ [][NextPool]_vars

\* the same start for a short run in which shutdown is called
InitStop == InitWith(MaxStopTasks)

\* the pool with its direct callers and shutdown() over a short run: every
\* worker thread is scheduled as long as it can take a step, and so is the
\* thread inside shutdown's loop of puts
SpecStopFair ==
    InitStop /\ [][Next]_vars /\ WF_vars(ShutdownPut)
             /\ \A w \in Workers : WF_vars(WorkerThread(w))

\* WATCH_ENABLED=false: only the upload entry point feeds the queue
NextUpload ==
    \/ UploadEnqueue
    \/ UploadResume
    \/ WorkerStep

SpecUpload == InitUpload /\ [][NextUpload]_vars

\* the command line (main.py): PDFProcessor(settings) starts the workers and
\* the watcher, then the main thread calls process_pdf
NextSync ==
    \/ SyncStep
    \/ WatcherStep
    \/ WorkerStep

SpecSync == InitSync /\ [][NextSync]_vars

(***************************************************************************)
(* PDFProcessor.__init__(settings): the parser backend is created, then    *)
(* the repository, the EmbeddingManager, the VectorStore and the queue,    *)
(* then the workers are started, then the watcher                          *)
(***************************************************************************)
\* a thread that threading.Thread.start() has not started yet
NotStarted == [IdleWorker EXCEPT !.pc = "unstarted"]

\* before PDFProcessor(settings): the environment names the two backends, no
\* thread of the processor runs, both tables are empty
InitConstruct ==
    /\ budget = MaxConstructTasks
    /\ queue = <<>>
    /\ unfinished = 0
    /\ wk = [t \in Threads |-> IF t = Caller THEN IdleCaller ELSE NotStarted]
    /\ docs = <<>>
    /\ indexed = {}
    /\ failed = [p \in LedgerPaths |-> NoRow]
    /\ jobs = [j \in JobIds |-> NoJob]
    /\ nUploads = 0
    /\ nAccepted = 0
    /\ fileContent = [p \in Paths |-> IF p = ApiPath THEN 2 ELSE 1]
    /\ up = [pc |-> "idle", task |-> NoTask]
    /\ cl = [pc |-> "idle", task |-> NoTask, timeout |-> FALSE]
    /\ sd = [called |-> FALSE, left |-> 0, wait |-> FALSE, returned |-> FALSE, busy |-> {}]
    /\ wt = [SleepingWatcher EXCEPT !.pc = "unstarted"]
    /\ hist = [p \in WatchPaths |-> NoHist]
    /\ lastPut = NoPut
    /\ led = NoLedgerCall
    /\ ck = NoChunking
    /\ vs = EmptyStore
    /\ rp = NoRepoCalls
    /\ st = NoStatus
    /\ md = NoMetadata
    /\ pr \in [pc : {"new"}, parser_backend : ParserNames,
                embedding_backend : EmbeddingNames]

\* PDFProcessor._create_parser(settings.parser_backend): the parser, or
\* ValueError("Unsupported parser backend"); the embedding backend's name is
\* not looked at here, nor by EmbeddingManager.__init__
CreateParser(p) ==
    IF p.parser_backend \in ParserBackends THEN "created" ELSE "ValueError"

\* __init__ up to the queue: settings, directories, self.parser =
\* _create_parser(..), MarkdownRepository, EmbeddingManager(settings),
\* VectorStore, queue.Queue(maxsize); ValueError ends the construction
ProcessorCreate ==
    /\ pr.pc = "new"
    /\ pr' = [pr EXCEPT !.pc = IF CreateParser(pr) = "created" THEN "workers"
                               ELSE "failed"]
    /\ UNCHANGED <<queue, unfinished, wk, docs, indexed, failed, jobs, nUploads,
                   nAccepted, budget, fileContent, up, cl, sd, wt, hist, lastPut, led,
                   ck, vs, rp, st, md>>

\* self._start_workers(): worker_count daemon threads enter _worker_loop
StartWorkers ==
    /\ pr.pc = "workers"
    /\ wk' = [t \in Threads |-> IF t \in Workers THEN IdleWorker ELSE wk[t]]
    /\ pr' = [pr EXCEPT !.pc = "watcher"]
    /\ UNCHANGED <<queue, unfinished, docs, indexed, failed, jobs, nUploads, nAccepted,
                   budget, fileContent, up, cl, sd, wt, hist, lastPut, led, ck, vs,
                   rp, st, md>>

\* if settings.watch_enabled: DirectoryWatcher(..).start(); __init__ returns
StartWatcher ==
    /\ pr.pc = "watcher"
    /\ wt' = SleepingWatcher
    /\ pr' = [pr EXCEPT !.pc = "ready"]
    /\ UNCHANGED <<queue, unfinished, wk, docs, indexed, failed, jobs, nUploads,
                   nAccepted, budget, fileContent, up, cl, sd, hist, lastPut, led, ck, vs,
                   rp, st, md>>

\* the thread inside PDFProcessor.__init__
ConstructStep ==
    \/ ProcessorCreate
    \/ StartWorkers
    \/ StartWatcher

\* the command line from its start: PDFProcessor(settings), then process_pdf
NextConstruct ==
    \/ ConstructStep
    \/ SyncStep
    \/ WatcherStep
    \/ WorkerStep

SpecConstruct == InitConstruct /\ [][NextConstruct]_vars

(***************************************************************************)
(* The failure ledger on its own: a client calls record_failure,           *)
(* clear_failures and is_blacklisted of one MarkdownRepository directly    *)
(***************************************************************************)
\* the max_attempts of the calls since the path last had no row: 0 none yet,
\* -1 when they differ
Uniform(u, m) == IF u = 0 \/ u = m THEN m ELSE -1

\* what the row of a path is: no record, failing or blacklisted
RowKind(row) == IF row.attempts = 0 THEN "no record"
                ELSE IF row.blacklisted THEN "blacklisted" ELSE "failing"

\* the repository call made last, by name and path
LastCall == IF led.call = "_on_success"
            THEN <<IF led.raised THEN "none" ELSE "clear_failures", led.path>>
            ELSE <<led.call, led.path>>

LedgerRecordFailure ==
    /\ \E p \in LedgerPaths, m \in 1..(MaxAttemptsArg + 1) :
         /\ failed[p].attempts <= MaxAttemptsArg
         /\ failed' = [failed EXCEPT ![p] = RecordFailure(@, m)]
         /\ led' = [call |-> "record_failure", path |-> p, max |-> m,
                    before |-> failed[p], ret |-> RecordFailure(failed[p], m),
                    flag |-> FALSE,
                    uniform |-> [led.uniform EXCEPT ![p] = Uniform(@, m)],
                    prev |-> LastCall, cleared |-> [led.cleared EXCEPT ![p] = "no"],
                    wasCleared |-> led.cleared[p], raised |-> FALSE]
    /\ UNCHANGED <<queue, unfinished, wk, docs, indexed, jobs, nUploads, nAccepted, budget,
                   fileContent, up, cl, sd, wt, hist, lastPut, ck, vs, pr, rp, st, md>>

LedgerClearFailures ==
    /\ \E p \in LedgerPaths :
         /\ failed' = [failed EXCEPT ![p] = ClearFailures(@)]
         /\ led' = [call |-> "clear_failures", path |-> p, max |-> 0,
                    before |-> failed[p], ret |-> ClearFailures(failed[p]),
                    flag |-> FALSE,
                    uniform |-> [led.uniform EXCEPT ![p] = 0],
                    prev |-> LastCall,
                    cleared |-> [led.cleared EXCEPT ![p] = RowKind(failed[p])],
                    wasCleared |-> led.cleared[p], raised |-> FALSE]
    /\ UNCHANGED <<queue, unfinished, wk, docs, indexed, jobs, nUploads, nAccepted, budget,
                   fileContent, up, cl, sd, wt, hist, lastPut, ck, vs, pr, rp, st, md>>

LedgerIsBlacklisted ==
    /\ \E p \in LedgerPaths :
         led' = [call |-> "is_blacklisted", path |-> p, max |-> 0,
                 before |-> failed[p], ret |-> failed[p],
                 flag |-> IsBlacklisted(failed[p]),
                 uniform |-> led.uniform,
                 prev |-> LastCall, cleared |-> led.cleared,
                 wasCleared |-> led.cleared[p], raised |-> FALSE]
    /\ UNCHANGED <<queue, unfinished, wk, docs, indexed, failed, jobs, nUploads,
                   nAccepted, budget, fileContent, up, cl, sd, wt, hist, lastPut, ck, vs, pr,
                   rp, st, md>>

\* the on_success hook of a watcher task for the path is called
\* (DirectoryWatcher._on_success): clear_failures inside try/except
LedgerOnSuccess ==
    /\ \E p \in LedgerPaths, raised \in BOOLEAN :
         /\ failed' = [failed EXCEPT ![p] = WatcherOnSuccess(@, raised)]
         /\ led' = [call |-> "_on_success", path |-> p, max |-> 0,
                    before |-> failed[p], ret |-> WatcherOnSuccess(failed[p], raised),
                    flag |-> FALSE,
                    uniform |-> [led.uniform EXCEPT ![p] = IF raised THEN @ ELSE 0],
                    prev |-> LastCall,
                    cleared |-> [led.cleared EXCEPT ![p] =
                                    IF raised THEN @ ELSE RowKind(failed[p])],
                    wasCleared |-> led.cleared[p], raised |-> raised]
    /\ UNCHANGED <<queue, unfinished, wk, docs, indexed, jobs, nUploads, nAccepted, budget,
                   fileContent, up, cl, sd, wt, hist, lastPut, ck, vs, pr, rp, st, md>>

NextLedger ==
    \/ LedgerRecordFailure
    \/ LedgerClearFailures
    \/ LedgerIsBlacklisted
    \/ LedgerOnSuccess

SpecLedger == Init /\ [][NextLedger]_vars

(***************************************************************************)
(* ProcessingManager.status_payload, called by the /api/process/status     *)
(* handler while the workers' hooks call _update_job                       *)
(***************************************************************************)
\* the same start for a run in which the job status is asked for
InitStatus == InitWith(MaxStatusTasks)

\* job.to_payload(): asdict(job) as the job object is when it is called
ToPayload(js, j) == [job |-> j, status |-> js[j].status, progress |-> js[j].progress]

\* the place after (g, i) in the four comprehensions over snap
StatusAdvance(s) ==
    IF s.i < Len(s.snap) THEN [s EXCEPT !.pc = "filter", !.i = s.i + 1]
    ELSE IF s.g < 4 THEN [s EXCEPT !.pc = "filter", !.g = s.g + 1, !.i = 1]
    ELSE [s EXCEPT !.pc = "returned"]

\* with self._lock: jobs = list(self._jobs.values()): the list is new, its
\* elements are the job objects of the map
StatusSnapshot ==
    /\ st.pc \in {"idle", "returned"}
    /\ st.calls < MaxStatusCalls
    /\ LET snap == SelectSeq([j \in JobIds |-> j], LAMBDA j : jobs[j].status # "none")
       IN  st' = IF snap = <<>>
                 THEN [NoStatus EXCEPT !.pc = "returned", !.calls = st.calls + 1]
                 ELSE [NoStatus EXCEPT !.pc = "filter", !.snap = snap,
                                       !.calls = st.calls + 1]
    /\ UNCHANGED <<queue, unfinished, wk, docs, indexed, failed, jobs, nUploads,
                   nAccepted, budget, fileContent, up, cl, sd, wt, hist, lastPut, led,
                   ck, vs, pr, rp, md>>

\* "... for job in jobs if job.status == JobStatus.<g>": the status of the
\* job object is read, outside the lock
StatusFilter ==
    /\ st.pc = "filter"
    /\ st' = IF jobs[st.snap[st.i]].status = GroupStatus[st.g]
             THEN [st EXCEPT !.pc = "payload"]
             ELSE StatusAdvance(st)
    /\ UNCHANGED <<queue, unfinished, wk, docs, indexed, failed, jobs, nUploads,
                   nAccepted, budget, fileContent, up, cl, sd, wt, hist, lastPut, led,
                   ck, vs, pr, rp, md>>

\* "job.to_payload() for job in jobs if ...": the payload of the job object
\* is appended to the list of the group, outside the lock
StatusPayload ==
    /\ st.pc = "payload"
    /\ st' = StatusAdvance([st EXCEPT !.groups[st.g] =
                                Append(@, ToPayload(jobs, st.snap[st.i]))])
    /\ UNCHANGED <<queue, unfinished, wk, docs, indexed, failed, jobs, nUploads,
                   nAccepted, budget, fileContent, up, cl, sd, wt, hist, lastPut, led,
                   ck, vs, pr, rp, md>>

\* the thread inside status_payload
StatusStep ==
    \/ StatusSnapshot
    \/ StatusFilter
    \/ StatusPayload

\* uploads feed the queue, the workers run them, a client asks for the status
NextStatus ==
    \/ UploadEnqueue
    \/ StatusStep
    \/ WorkerStep

SpecStatus == InitStatus /\ [][NextStatus]_vars

(***************************************************************************)
(* The metadata of one task: _collect_metadata(path, task.metadata), then  *)
(* MarkdownRepository.save(.., metadata=metadata). A dict is a function    *)
(* from its keys; the caller's value of a key is <<"caller", key>>, the    *)
(* value read from the file system <<"fs", key>>.                          *)
(***************************************************************************)
\* the keys _collect_metadata sets, in the order of its setdefault calls
FsKeys == <<"source_path", "file_size", "modified_at", "created_at">>
\* the keys a caller may put into the metadata of a task
MetadataKeys == {FsKeys[i] : i \in 1..Len(FsKeys)} \cup {"ingest_source"}
\* the same keys as json.dumps(.., sort_keys=True) orders them
SortedKeys == <<"created_at", "file_size", "ingest_source", "modified_at", "source_path">>

\* the metadata dicts a caller may build a task with ({} included)
CallerDicts == UNION {[K -> {"caller"}] : K \in SUBSET MetadataKeys}
CallerValue(k) == <<"caller", k>>
FsValue(k) == <<"fs", k>>

RECURSIVE SetDefaults(_, _)

\* metadata[key] = value, whatever the dict holds
SetDefaultOverwrites(d, k, v) ==
    [x \in DOMAIN d \cup {k} |-> IF x = k THEN v ELSE d[x]]

\* dict.setdefault(key, value): a key the dict holds keeps its value
SetDefault(d, k, v) ==
    IF k \in DOMAIN d THEN d
    ELSE [x \in DOMAIN d \cup {k} |-> IF x = k THEN v ELSE d[x]]

\* the setdefault calls for the first n keys of FsKeys, one after the other
SetDefaults(d, n) ==
    IF n = 0 THEN d
    ELSE SetDefault(SetDefaults(d, n - 1), FsKeys[n], FsValue(FsKeys[n]))

\* PDFProcessor._collect_metadata: metadata = dict(base or {}), a dict of its
\* own; stat = path.stat() comes before the setdefault calls, so that
\* FileNotFoundError leaves the copy as it is
CollectMetadata(base, stat) ==
    IF stat = "FileNotFoundError" THEN base ELSE SetDefaults(base, Len(FsKeys))

\* json.dumps(metadata, sort_keys=True) if metadata else None: the pairs of
\* the dict in the order of their keys, null (no text) for an empty dict
JsonDumps(d) ==
    IF DOMAIN d = {} THEN [null |-> TRUE, pairs |-> <<>>]
    ELSE LET keys == SelectSeq(SortedKeys, LAMBDA k : k \in DOMAIN d)
         IN  [null |-> FALSE, pairs |-> [i \in 1..Len(keys) |-> <<keys[i], d[keys[i]]>>]]

\* _row_to_record: json.loads of the metadata column, None for NULL
JsonLoads(text) ==
    IF text.null THEN <<>>
    ELSE [k \in {text.pairs[i][1] : i \in 1..Len(text.pairs)} |->
             text.pairs[CHOOSE i \in 1..Len(text.pairs) : text.pairs[i][1] = k][2]]

\* a task built with one of the caller's dicts, before it is executed
InitMetadata ==
    /\ InitBase(MaxTasks)
    /\ ck = NoChunking
    /\ vs = EmptyStore
    /\ pr = ReadyProcessor
    /\ md \in {[NoMetadata EXCEPT !.pc = "task", !.task = d, !.base = d] :
                 d \in {[k \in DOMAIN c |-> CallerValue(k)] : c \in CallerDicts}}

\* metadata = self._collect_metadata(path, task.metadata)
CollectStep ==
    /\ md.pc = "task"
    /\ \E stat \in {"ok", "FileNotFoundError"} :
         md' = [md EXCEPT !.pc = "collected", !.stat = stat,
                          !.metadata = CollectMetadata(md.task, stat)]
    /\ UNCHANGED <<queue, unfinished, wk, docs, indexed, failed, jobs, nUploads,
                   nAccepted, budget, fileContent, up, cl, sd, wt, hist, lastPut, led,
                   ck, vs, pr, rp, st>>

\* record = self.markdown_repository.save(.., metadata=metadata)
SaveStep ==
    /\ md.pc = "collected"
    /\ md' = [md EXCEPT !.pc = "saved", !.stored = JsonDumps(md.metadata)]
    /\ UNCHANGED <<queue, unfinished, wk, docs, indexed, failed, jobs, nUploads,
                   nAccepted, budget, fileContent, up, cl, sd, wt, hist, lastPut, led,
                   ck, vs, pr, rp, st>>

NextMetadata ==
    \/ CollectStep
    \/ SaveStep

SpecMetadata == InitMetadata /\ [][NextMetadata]_vars

(***************************************************************************)
(* The failure ledger under concurrent callers: the workers call           *)
(* record_failure and clear_failures (the watcher tasks' hooks), the       *)
(* watcher thread calls is_blacklisted, each call being                    *)
(* "with self._lock: with self._connect() as conn: SELECT; write; commit"  *)
(***************************************************************************)
\* the ledger calls a thread makes
RepoOps(t) == IF t = WatcherThread THEN {"is_blacklisted"}
              ELSE {"record_failure", "clear_failures"}

\* the calls entering their body without the lock
AcquireUnlocked(lock, t) == TRUE

\* threading.RLock.acquire by thread t: granted when the lock is free or its own
Acquire(lock, t) == lock \in {0, t}

\* the same start for a run of the failure ledger under concurrent callers
InitLock == InitWith(MaxTasks)

\* a thread calls record_failure, clear_failures or is_blacklisted for a path
RepoCall(t) ==
    /\ rp.th[t].pc = "idle"
    /\ rp.calls < MaxLedgerCalls
    /\ \E op \in RepoOps(t), p \in LedgerPaths :
         rp' = [rp EXCEPT !.calls = @ + 1,
                          !.th[t] = [IdleRepo EXCEPT !.pc = "lock", !.op = op, !.path = p]]
    /\ UNCHANGED <<queue, unfinished, wk, docs, indexed, failed, jobs, nUploads,
                   nAccepted, budget, fileContent, up, cl, sd, wt, hist, lastPut, led,
                   ck, vs, pr, st, md>>

\* with self._lock: the thread waits until it is granted the lock
RepoAcquire(t) ==
    /\ rp.th[t].pc = "lock"
    /\ Acquire(rp.lock, t)
    /\ rp' = [rp EXCEPT !.lock = t,
                        !.th[t].pc = IF rp.th[t].op = "clear_failures" THEN "write"
                                     ELSE "select"]
    /\ UNCHANGED <<queue, unfinished, wk, docs, indexed, failed, jobs, nUploads,
                   nAccepted, budget, fileContent, up, cl, sd, wt, hist, lastPut, led,
                   ck, vs, pr, st, md>>

\* row = conn.execute("SELECT ... WHERE source_path = ?").fetchone();
\* is_blacklisted returns what the row says
RepoSelect(t) ==
    /\ rp.th[t].pc = "select"
    /\ LET c == rp.th[t]
           row == failed[c.path]
       IN  rp' = [rp EXCEPT !.th[t] =
                     IF c.op = "is_blacklisted"
                     THEN [c EXCEPT !.pc = "release", !.row = row,
                                    !.flag = IsBlacklisted(row)]
                     ELSE [c EXCEPT !.pc = "write", !.row = row]]
    /\ UNCHANGED <<queue, unfinished, wk, docs, indexed, failed, jobs, nUploads,
                   nAccepted, budget, fileContent, up, cl, sd, wt, hist, lastPut, led,
                   ck, vs, pr, st, md>>

\* record_failure: INSERT or UPDATE with the values computed from the row
\* that was selected; clear_failures: DELETE; conn.commit()
RepoWrite(t) ==
    /\ rp.th[t].pc = "write"
    /\ LET c == rp.th[t]
           new == IF c.op = "record_failure" THEN RecordFailure(c.row, MaxProcessAttempts)
                  ELSE ClearFailures(failed[c.path])
       IN  /\ failed' = [failed EXCEPT ![c.path] = new]
           /\ rp' = [rp EXCEPT !.th[t] = [c EXCEPT !.pc = "release", !.ret = new],
                               !.recorded[c.path] = IF c.op = "record_failure"
                                                    THEN @ + 1 ELSE 0]
    /\ UNCHANGED <<queue, unfinished, wk, docs, indexed, jobs, nUploads, nAccepted,
                   budget, fileContent, up, cl, sd, wt, hist, lastPut, led, ck, vs, pr,
                   st, md>>

\* the with blocks are left: the lock is released and the call returns
RepoRelease(t) ==
    /\ rp.th[t].pc = "release"
    /\ rp' = [rp EXCEPT !.lock = IF @ = t THEN 0 ELSE @, !.th[t].pc = "idle"]
    /\ UNCHANGED <<queue, unfinished, wk, docs, indexed, failed, jobs, nUploads,
                   nAccepted, budget, fileContent, up, cl, sd, wt, hist, lastPut, led,
                   ck, vs, pr, st, md>>

NextLock ==
    \/ \E t \in RepoThreads : RepoCall(t)
    \/ \E t \in RepoThreads : RepoAcquire(t)
    \/ \E t \in RepoThreads : RepoSelect(t)
    \/ \E t \in RepoThreads : RepoWrite(t)
    \/ \E t \in RepoThreads : RepoRelease(t)

SpecLock == InitLock /\ [][NextLock]_vars

(***************************************************************************)
(* EmbeddingManager.chunk_markdown(markdown, chunk_size, overlap) on its   *)
(* own: a text of tokens words, each chunk kept as <<start, end>>, the     *)
(* slice tokens[start:end]                                                 *)
(***************************************************************************)
\* start = end: the next chunk begins where this one ends
NextStartNoOverlap(end, overlap) == end

\* start = max(0, end - overlap)
NextStart(end, overlap) == IF end - overlap > 0 THEN end - overlap ELSE 0

\* end = min(len(tokens), start + chunk_size)
ChunkEnd(tokens, start, chunk_size) ==
    IF tokens < start + chunk_size THEN tokens ELSE start + chunk_size

\* the loop left one token before the end of the text
AtEndEarly(end, tokens) == end >= tokens - 1

\* if end == len(tokens): break
AtEnd(end, tokens) == end = tokens

\* a call with a text of 0..MaxTokens tokens and 0 <= overlap < chunk_size
\* (with overlap >= chunk_size the loop of the code does not advance)
InitChunk ==
    /\ InitBase(MaxTasks)
    /\ vs = EmptyStore
    /\ pr = ReadyProcessor
    /\ md = NoMetadata
    /\ ck \in {[pc |-> "split", tokens |-> n, chunk_size |-> c, overlap |-> o,
                 start |-> 0, chunks |-> <<>>] :
                   n \in 0..MaxTokens, c \in 1..MaxChunkSize, o \in 0..(MaxChunkSize - 1)}
    /\ ck.overlap < ck.chunk_size

\* tokens = markdown.split(); if not tokens: return []; chunks = []; start = 0
ChunkSplit ==
    /\ ck.pc = "split"
    /\ ck' = [ck EXCEPT !.pc = IF ck.tokens = 0 THEN "done" ELSE "loop"]
    /\ UNCHANGED <<queue, unfinished, wk, docs, indexed, failed, jobs, nUploads, nAccepted,
                   budget, fileContent, up, cl, sd, wt, hist, lastPut, led, vs, pr,
                   rp, st, md>>

\* one turn of "while start < len(tokens)": the chunk is appended, then the
\* loop is left at the end of the text or start moves on
ChunkLoop ==
    /\ ck.pc = "loop"
    /\ LET end == ChunkEnd(ck.tokens, ck.start, ck.chunk_size)
           chunks == Append(ck.chunks, <<ck.start, end>>)
       IN  ck' = IF AtEnd(end, ck.tokens)
                 THEN [ck EXCEPT !.pc = "done", !.chunks = chunks]
                 ELSE LET start == NextStart(end, ck.overlap)
                      IN  [ck EXCEPT !.chunks = chunks, !.start = start,
                                     !.pc = IF start < ck.tokens THEN "loop" ELSE "done"]
    /\ UNCHANGED <<queue, unfinished, wk, docs, indexed, failed, jobs, nUploads, nAccepted,
                   budget, fileContent, up, cl, sd, wt, hist, lastPut, led, vs, pr,
                   rp, st, md>>

NextChunk ==
    \/ ChunkSplit
    \/ ChunkLoop

\* the thread inside chunk_markdown is scheduled as long as it can run
SpecChunk == InitChunk /\ [][NextChunk]_vars /\ WF_vars(NextChunk)

(***************************************************************************)
(* VectorStore.add_embeddings as _execute_pipeline calls it for a new      *)
(* record: chunks -> embed_documents -> add_embeddings(record.id, ..).     *)
(* dim = 0 stands for _embedding_dim None (and no table yet); a vector is  *)
(* kept as the text it embeds and its length.                              *)
(***************************************************************************)
\* ids of the records whose embeddings are added
IndexDocIds == {1, 2}
\* texts of chunks
ChunkTexts == {"t1", "t2"}
\* lengths of the vectors the embedding backend returns
VectorDims == {2, 3}

\* the sequences over a set of length n, and of length up to n
SeqsOfLen(S, n) == [1..n -> S]
SeqsUpTo(S, n) == UNION {SeqsOfLen(S, k) : k \in 0..n}

\* embed_documents(texts): one EmbeddingResult per text, in the order of the
\* texts (zip(texts, embeddings)); lens are the lengths of the backend's vectors
EmbedDocuments(texts, lens) ==
    [i \in 1..Len(texts) |-> [text |-> texts[i],
                              vector |-> [of |-> texts[i], len |-> lens[i]]]]

\* enumerate(embeddings, 1): the chunk indexes start at 1
ChunkIndexFromOne(i) == i

\* for chunk_index, embedding in enumerate(embeddings): the index of the i-th
ChunkIndex(i) == i - 1

\* the rows built by the loop of add_embeddings
EmbeddingRows(document_id, embeddings) ==
    [i \in 1..Len(embeddings) |-> [document_id |-> document_id,
                                   chunk_index |-> ChunkIndex(i),
                                   vector |-> embeddings[i].vector,
                                   text |-> embeddings[i].text]]

\* VectorStore.add_embeddings: _embedding_dim and the rows after the call, and
\* whether it raised. An empty list returns at once; a store without a
\* dimension takes the length of the first vector (and creates its table)
\* before the loop compares every vector with _embedding_dim; the rows are
\* added after the loop, all together
AddEmbeddings(store, document_id, embeddings) ==
    IF embeddings = <<>>
    THEN [dim |-> store.dim, rows |-> store.rows, raised |-> FALSE]
    ELSE LET dim == IF store.dim = 0 THEN embeddings[1].vector.len ELSE store.dim
         IN  IF \E i \in 1..Len(embeddings) : embeddings[i].vector.len # dim
             THEN [dim |-> dim, rows |-> store.rows, raised |-> TRUE]
             ELSE [dim |-> dim, rows |-> store.rows \o EmbeddingRows(document_id, embeddings),
                   raised |-> FALSE]

\* VectorStore(path, settings.embedding_dimension or None) on an empty directory
InitIndex ==
    /\ InitBase(MaxTasks)
    /\ ck = NoChunking
    /\ pr = ReadyProcessor
    /\ md = NoMetadata
    /\ vs \in {[EmptyStore EXCEPT !.dim = d] : d \in {0} \cup VectorDims}

\* the ids that have rows or were the argument of the latest call
Indexed == {vs.rows[i].document_id : i \in 1..Len(vs.rows)} \cup {vs.last.document_id}

\* _execute_pipeline for a new record: chunks = _chunk_markdown(markdown),
\* embeddings = embed_documents(chunks), add_embeddings(record.id, embeddings)
EmbedAndIndex ==
    /\ \E document_id \in IndexDocIds \ Indexed, chunks \in SeqsUpTo(ChunkTexts, MaxChunks) :
         \E lens \in SeqsOfLen(VectorDims, Len(chunks)) :
           LET embeddings == EmbedDocuments(chunks, lens)
               r == AddEmbeddings(vs, document_id, embeddings)
           IN  vs' = [dim |-> r.dim, rows |-> r.rows,
                      last |-> [document_id |-> document_id, chunks |-> chunks,
                                embeddings |-> embeddings, dimBefore |-> vs.dim,
                                rowsBefore |-> vs.rows, raised |-> r.raised]]
    /\ UNCHANGED <<queue, unfinished, wk, docs, indexed, failed, jobs, nUploads, nAccepted,
                   budget, fileContent, up, cl, sd, wt, hist, lastPut, led, ck, pr,
                   rp, st, md>>

NextIndex == EmbedAndIndex

SpecIndex == InitIndex /\ [][NextIndex]_vars

(***************************************************************************)
(* Properties                                                              *)
(***************************************************************************)
\* the rows of documents with the content hash
RowsWithHash(h) == {i \in 1..Len(docs) : docs[i].content_hash = h}

\* the watcher's submit_task call of this step put its task on the queue
WatcherAccepted ==
    /\ wt.pc = "submit"
    /\ wt' # wt
    /\ queue' = Append(queue, WatcherTask(wt.cur))

\* C1: two tasks with the same content hash, here the upload u1.pdf and the
\* watcher's task for a.pdf, leave exactly one Document Record with that hash
\* once both have ended with on_success.
C1_OneRecordPerHash ==
    (/\ jobs[1].status = "completed"
     /\ hist["a.pdf"].succ
     /\ ComputeHash(ExtractMarkdown(UploadNames[1])) = ComputeHash(ExtractMarkdown("a.pdf")))
    => Cardinality(RowsWithHash(ComputeHash(ExtractMarkdown("a.pdf")))) = 1

\* C2: starting from no row, record_failure called with the same max_attempts
\* returns blacklisted = true on the call whose attempt count reaches
\* max_attempts and false on every call before it.
C2_BlacklistedExactlyAtMax ==
    (/\ led.call = "record_failure"
     /\ led.uniform[led.path] = led.max
     /\ led.ret.attempts <= led.max)
    => (led.ret.blacklisted <=> led.ret.attempts = led.max)

\* C3: submit_task(task, block=False) on a full queue raises queue.Full at
\* once, without waiting, and leaves the queue as it was.
C3_NonBlockingFullRaises ==
    lastPut.wasFull => (lastPut.result = "Full" /\ lastPut.same)

\* a non-blocking submit was refused by a queue holding its maximum
C3_Witness ==
    /\ lastPut.wasFull
    /\ lastPut.result = "Full"
    /\ Len(queue) = QueueMaxsize
    /\ cl.pc = "idle"

\* C4: an upload arriving while the queue is full is answered with the
\* service-busy error; the upload handler never waits for a free slot.
C4_UploadNeverWaits == up.pc # "putting"

\* C5: the watcher submits a task for a path only if documents held no row
\* with that source_path when the scan looked the path up.
C5_SubmitOnlyWithoutRecord ==
    [][WatcherAccepted => ~wt.hadRecord]_vars

\* C6: once a watcher task for a path has ended with on_success, no scan
\* started later submits a task for that path (stated for the scans whose
\* lookup was answered, so that only the missing record is at work).
C6_NoResubmitAfterSuccess ==
    [][(WatcherAccepted /\ ~wt.hadRecord) => wt.cur \notin wt.okAtStart]_vars

\* a watcher task for the path is waiting or being executed, its on_error not
\* yet called
Pending(p) ==
    \/ \E i \in 1..Len(queue) : queue[i] = WatcherTask(p)
    \/ \E w \in Workers : wk[w].task = WatcherTask(p) /\ wk[w].pc # "task_done"

\* C7: with max_attempts = 3, after the tasks of three scans for a path have
\* failed one after the other, each recorded in the ledger, the path is
\* blacklisted and no further task is submitted for it.
C7_BlacklistedAfterThreeFailures ==
    \A p \in WatchPaths :
      (/\ MaxProcessAttempts = 3
       /\ hist[p].fails = 3
       /\ ~hist[p].overlap
       /\ failed[p].attempts = 3)
      => (IsBlacklisted(failed[p]) /\ ~Pending(p))

\* C8: no scan submits a task for a path whose failed_files row is
\* blacklisted when the scan checks it.
C8_BlacklistedNeverSubmitted ==
    [][WatcherAccepted => ~wt.wasBlacklisted]_vars

\* C9: when _execute_pipeline raised, the worker has called on_error once with
\* that exception, has not called on_success, and goes on with its loop.
C9_PipelineErrorHandled ==
    \A w \in Workers :
      (wk[w].piped /\ wk[w].pc = "task_done")
      => (/\ wk[w].errs = 1
          /\ wk[w].errArg = wk[w].exc
          /\ wk[w].succ = 0
          /\ ~wk[w].escaped)

\* C10: until shutdown is called every worker thread is alive.
C10_WorkersAliveUntilShutdown ==
    ~sd.called => \A w \in Workers : wk[w].pc \notin {"dead", "exited"}

\* the progress events of a trace, and the names of its calls
Events(log) == SelectSeq(log, LAMBDA e : e.kind = "emit")
Calls(log) == [i \in 1..Len(SelectSeq(log, LAMBDA e : e.kind = "call")) |->
                  SelectSeq(log, LAMBDA e : e.kind = "call")[i].name]

NewContentEvents == <<Event(15, "metadata"), Event(45, "parsed"), Event(65, "chunked"),
                      Event(85, "embedded"), Event(100, "completed")>>
DuplicateEvents == <<Event(15, "metadata"), Event(45, "parsed"), Event(100, "duplicate")>>
NewContentCalls == <<"exists", "parse", "get_by_hash", "save", "chunk", "embed",
                     "add_embeddings">>
DuplicateCalls == <<"exists", "parse", "get_by_hash">>
PipelineErrors == {"FileNotFoundError", "ConversionError", "EmbeddingError", "ValueError"}

\* the content hash of the worker's task
TaskHash(w) == ComputeHash(ExtractMarkdown(wk[w].task.source_path))

\* C11: a task whose on_progress hook raises at its progress events is taken
\* through every step all the same: the only exceptions that end it are the
\* pipeline's own, and when there is none on_success is called once, on_error
\* not at all, with the record of its content hash, saved under its path and
\* indexed (new content) or found by get_by_hash (duplicate).
C11_ProgressHookNeverAborts ==
    \A w \in Workers :
      "on_progress" \in wk[w].task.raises =>
        /\ wk[w].exc \in {"none"} \cup PipelineErrors
        /\ (wk[w].pc = "task_done" /\ wk[w].exc = "none") =>
             /\ wk[w].succ = 1
             /\ wk[w].errs = 0
             /\ wk[w].rec \in 1..Len(docs)
             /\ docs[wk[w].rec].content_hash = TaskHash(w)
             /\ \/ /\ Events(wk[w].log) = NewContentEvents
                   /\ Calls(wk[w].log) = NewContentCalls
                   /\ docs[wk[w].rec].source_path = wk[w].task.source_path
                   /\ wk[w].rec \in indexed
                \/ /\ Events(wk[w].log) = DuplicateEvents
                   /\ Calls(wk[w].log) = DuplicateCalls

\* a task whose on_progress hook raised five times has ended with on_success
C11_Witness ==
    \E w \in Workers :
      /\ "on_progress" \in wk[w].task.raises
      /\ wk[w].pc = "task_done"
      /\ wk[w].succ = 1
      /\ Events(wk[w].log) = NewContentEvents
      /\ wk[w].rec \in indexed

\* C12: a task whose on_start hook raised has had _execute_pipeline run for
\* it by the time its terminal hook has been called.
C12_OnStartFailureStillRunsPipeline ==
    \A w \in Workers :
      (wk[w].pc = "task_done" /\ wk[w].starts = 1) => Calls(wk[w].log) # <<>>

\* the steps of the job lifecycle: queued -> processing -> completed | failed
Lifecycle == {<<"none", "queued">>, <<"queued", "processing">>,
              <<"processing", "completed">>, <<"processing", "failed">>}

\* C13: the status of an upload job changes only by a step of the lifecycle:
\* never backward, never to completed or failed from anything but processing,
\* never away from completed or failed.
C13_JobLifecycle ==
    [][\A j \in JobIds :
         \/ jobs'[j].status = jobs[j].status
         \/ <<jobs[j].status, jobs'[j].status>> \in Lifecycle]_vars

\* an upload job has gone from queued through processing to failed
C13_Witness ==
    /\ jobs[1].status = "failed"
    /\ jobs[1].error \in PipelineErrors
    /\ \E w \in Workers : wk[w].task = UploadTask(1) /\ wk[w].pc = "task_done"

\* C14: in the job map a completed job has progress 100 and a document id, a
\* failed job progress 0 and an error message, a queued job progress 0, and
\* every job a progress within 0..100.
C14_JobFieldsMatchStatus ==
    \A j \in JobIds :
      /\ jobs[j].status = "completed" =>
            (jobs[j].progress = 100 /\ jobs[j].document_id # 0)
      /\ jobs[j].status = "failed" =>
            (jobs[j].progress = 0 /\ jobs[j].error # "none")
      /\ jobs[j].status = "queued" => jobs[j].progress = 0
      /\ jobs[j].progress \in 0..100

\* an upload completed on the duplicate path: its document id is the record
\* saved for another file
C14_Witness ==
    \E j \in JobIds :
      /\ jobs[j].status = "completed"
      /\ jobs[j].progress = 100
      /\ jobs[j].document_id \in 1..Len(docs)
      /\ docs[jobs[j].document_id].source_path # UploadNames[j]

IsPrefix(a, b) == Len(a) <= Len(b) /\ \A i \in 1..Len(a) : a[i] = b[i]

\* what _execute_pipeline does for new content, in the order of the code
NewContentLog == <<Call("exists"), Event(15, "metadata"),
                   Call("parse"), Event(45, "parsed"),
                   Call("get_by_hash"),
                   Call("save"), Call("chunk"), Event(65, "chunked"),
                   Call("embed"), Event(85, "embedded"),
                   Call("add_embeddings"), Event(100, "completed")>>

\* get_by_hash found no record for the worker's task
Fresh(w) == wk[w].pc = "save" \/ \E i \in 1..Len(wk[w].log) : wk[w].log[i] = Call("save")

\* the stage has been emitted by the worker
Emitted(w, stage) ==
    \E i \in 1..Len(wk[w].log) : wk[w].log[i].kind = "emit" /\ wk[w].log[i].name = stage

\* C15: for a task whose content is new the executor emits (15, metadata),
\* (45, parsed), (65, chunked), (85, embedded), (100, completed), once each, in
\* that order and each after the calls of its step; the percentages grow; the
\* record is in documents once chunked is out, the record is in the index
\* once completed is out, and all five are out when the executor returns.
C15_ProgressOfNewContent ==
    \A w \in Workers :
      Fresh(w) =>
        /\ IsPrefix(wk[w].log, NewContentLog)
        /\ \A i, k \in 1..Len(Events(wk[w].log)) :
             i < k => Events(wk[w].log)[i].progress < Events(wk[w].log)[k].progress
        /\ Emitted(w, "chunked") =>
             /\ wk[w].rec \in 1..Len(docs)
             /\ docs[wk[w].rec] = [source_path |-> wk[w].task.source_path,
                                   content_hash |-> TaskHash(w)]
        /\ Emitted(w, "completed") => wk[w].rec \in indexed
        /\ wk[w].pc \in {"on_success", "task_done"} /\ wk[w].exc = "none"
             => Events(wk[w].log) = NewContentEvents

\* the executor has returned the record of a new content, all five events out
C15_Witness ==
    \E w \in Workers :
      /\ wk[w].pc = "on_success"
      /\ wk[w].log = NewContentLog
      /\ wk[w].rec \in indexed

\* C16: when documents holds a record with the content hash of the task at
\* the executor's get_by_hash, the executor emits (100, duplicate) and returns
\* the first such record; it has called neither save nor the embedding
\* backend nor add_embeddings, and documents and the index are as they were.
C16_DuplicateShortCircuit ==
    [][\A w \in Workers :
         (/\ wk[w].pc = "pipeline"
          /\ \E i \in 1..Len(wk'[w].log) : wk'[w].log[i] = Call("get_by_hash")
          /\ RowsWithHash(TaskHash(w)) # {})
         => /\ wk'[w].pc = "on_success"
            /\ wk'[w].log[Len(wk'[w].log)] = Event(100, "duplicate")
            /\ wk'[w].rec \in RowsWithHash(TaskHash(w))
            /\ \A i \in RowsWithHash(TaskHash(w)) : wk'[w].rec <= i
            /\ Calls(wk'[w].log) = DuplicateCalls
            /\ docs' = docs
            /\ indexed' = indexed]_vars

\* the executor has returned an existing record for a duplicate
C16_Witness ==
    \E w \in Workers :
      /\ wk[w].pc = "on_success"
      /\ Events(wk[w].log) = DuplicateEvents
      /\ wk[w].rec \in RowsWithHash(TaskHash(w))
      /\ docs[wk[w].rec].source_path = wk[w].task.source_path

\* C17: a task whose file is missing when the executor starts fails with
\* FileNotFoundError before any progress event, documents and the index
\* staying as they were; the worker then calls on_error once with that
\* exception and not on_success, and for a watcher task record_failure writes
\* the ledger row as for any failure (if the ledger itself does not raise).
C17_MissingFileFails ==
    [][\A w \in Workers :
         /\ (wk[w].pc = "pipeline" /\ wk'[w].exc = "FileNotFoundError")
            => /\ wk'[w].pc = "on_error"
               /\ Events(wk'[w].log) = <<>>
               /\ docs' = docs
               /\ indexed' = indexed
               /\ jobs' = jobs
         /\ (wk[w].pc = "on_error" /\ wk[w].exc = "FileNotFoundError" /\ wk'[w] # wk[w])
            => /\ wk'[w].pc = "task_done"
               /\ wk'[w].errs = 1
               /\ wk'[w].errArg = "FileNotFoundError"
               /\ wk'[w].succ = 0
               /\ (wk[w].task.job_id = "watcher" /\ ~wk'[w].ledgerRaised)
                  => failed'[wk[w].task.source_path] =
                        RecordFailure(failed[wk[w].task.source_path], MaxProcessAttempts)]_vars

\* a watcher task for a missing file has failed and is in the ledger
C17_Witness ==
    \E w \in Workers :
      /\ wk[w].task.job_id = "watcher"
      /\ wk[w].pc = "task_done"
      /\ wk[w].exc = "FileNotFoundError"
      /\ wk[w].log = <<Call("exists")>>
      /\ ~wk[w].ledgerRaised
      /\ failed[wk[w].task.source_path].attempts >= 1

\* the queue holds a shutdown sentinel
SentinelQueued == \E i \in 1..Len(queue) : queue[i] = Sentinel

\* C18: when shutdown(wait=True) has returned, each of the W workers has taken
\* one of the W sentinels and left its loop by it, so that none is left over.
C18_ShutdownJoinsExitedWorkers ==
    (sd.wait /\ sd.returned) =>
        /\ \A w \in Workers : wk[w].pc = "exited"
        /\ ~SentinelQueued

\* C19: a worker that was executing a task when shutdown was called finishes
\* it and then takes nothing but a sentinel from the queue.
C19_NoRealTaskAfterShutdown ==
    [][\A w \in sd.busy :
         (wk[w].pc = "get" /\ wk'[w].pc # "get") => wk'[w].pc = "exited"]_vars

\* C20: a task claimed by a worker has had on_start called once and then one
\* terminal hook, on_success or on_error, once, when the worker is done with it.
C20_OneTerminalHook ==
    \A w \in Workers :
      wk[w].pc = "task_done" =>
        /\ wk[w].starts = 1
        /\ wk[w].succ + wk[w].errs = 1

\* C21: process_pdf runs the pipeline on the calling thread: no step of that
\* thread changes the queue, its count of unfinished tasks, the job map or the
\* failure ledger, none calls a hook (on_start, on_progress, on_success,
\* on_error), and an exception of the pipeline ends the call as that exception.
C21_ProcessPdfInline ==
    [][wk'[Caller] # wk[Caller] =>
         /\ queue' = queue
         /\ unfinished' = unfinished
         /\ nAccepted' = nAccepted
         /\ jobs' = jobs
         /\ failed' = failed
         /\ wk'[Caller].starts = 0
         /\ wk'[Caller].succ = 0
         /\ wk'[Caller].errs = 0
         /\ Events(wk'[Caller].log) = <<>>
         /\ wk'[Caller].pc # "idle" => wk'[Caller].task = SyncTask
         /\ wk[Caller].pc = "on_error" =>
              /\ wk'[Caller].pc = "raised"
              /\ wk'[Caller].exc = wk[Caller].exc
              /\ wk'[Caller].exc \in PipelineErrors
         /\ wk[Caller].pc = "on_success" =>
              /\ wk'[Caller].pc = "returned"
              /\ wk'[Caller].rec \in 1..Len(docs)
              /\ docs[wk'[Caller].rec].content_hash = TaskHash(Caller)]_vars

\* process_pdf has raised the pipeline's error to its caller, its record
\* saved, while a task of the watcher was waiting in the queue
C21_Witness ==
    /\ wk[Caller].pc = "raised"
    /\ wk[Caller].exc = "EmbeddingError"
    /\ wk[Caller].rec \in 1..Len(docs)
    /\ queue = <<WatcherTask("a.pdf")>>

\* the ledger call of this step, by its name and path
LedgerCall(name, p) == led' # led /\ led'.call = name /\ led'.path = p

\* clear_failures is called for the path in this step, by a client or by the
\* watcher's on_success hook
ClearCalled(p) ==
    \/ LedgerCall("clear_failures", p)
    \/ LedgerCall("_on_success", p)

\* C22: every record_failure call for a path adds exactly one to its stored
\* attempt count and returns that count, and a path that is blacklisted stays
\* so through every call, whatever its max_attempts, but clear_failures for it.
C22_AttemptsGrowFlagSticks ==
    [][\A p \in LedgerPaths :
         /\ LedgerCall("record_failure", p) =>
               /\ failed'[p].attempts = failed[p].attempts + 1
               /\ led'.ret = failed'[p]
         /\ (IsBlacklisted(failed[p]) /\ ~ClearCalled(p))
               => IsBlacklisted(failed'[p])]_vars

\* record_failure was called for a blacklisted path with a max_attempts above
\* the attempt count it reached, and the path is still blacklisted
C22_Witness ==
    /\ led.call = "record_failure"
    /\ led.before.blacklisted
    /\ led.ret.attempts < led.max
    /\ IsBlacklisted(failed[led.path])

\* C23: whatever the row of a path was, is_blacklisted right after
\* clear_failures for it returns false and the next record_failure for it
\* writes attempts = 1, not blacklisted; the watcher's on_success hook for a
\* path leaves its row cleared in the same way (if the ledger does not raise).
C23_ClearStartsCleanCycle ==
    /\ (led.call = "is_blacklisted" /\ led.prev = <<"clear_failures", led.path>>)
         => ~led.flag
    /\ (led.call = "record_failure" /\ led.wasCleared # "no")
         => led.ret = [attempts |-> 1, blacklisted |-> FALSE]
    /\ (led.call = "_on_success" /\ ~led.raised)
         => /\ failed[led.path] = NoRow
            /\ ~IsBlacklisted(failed[led.path])
            /\ led.cleared[led.path] = RowKind(led.before)

\* the first record_failure for a path since the on_success hook cleared its
\* blacklisted row
C23_Witness ==
    /\ led.call = "record_failure"
    /\ led.wasCleared = "blacklisted"
    /\ led.prev = <<"is_blacklisted", led.path>>
    /\ failed[led.path].attempts = 1

\* the worker's on_error call of this step
OnErrorCalled(w) == wk[w].pc = "on_error" /\ wk'[w].pc = "task_done"

\* C24: the on_error hook of a watcher task calls record_failure once for the
\* task's path with settings.max_process_attempts, so that the path's row
\* becomes what that call writes (if the ledger does not raise) and no other
\* row changes; the on_error hook of an upload task leaves the ledger as it
\* is and marks the job failed.
C24_OnlyWatcherFailuresRecorded ==
    [][\A w \in Workers :
         OnErrorCalled(w) =>
           LET t == wk[w].task
               p == t.source_path
           IN  /\ t.job_id = "watcher" =>
                     /\ hist'[p].fails = hist[p].fails + 1
                     /\ failed' = [failed EXCEPT ![p] =
                                      IF wk'[w].ledgerRaised THEN @
                                      ELSE RecordFailure(@, MaxProcessAttempts)]
               /\ t.job_id = "upload" =>
                     /\ failed' = failed
                     /\ jobs'[t.job].status = "failed"]_vars

\* an upload has failed and a watcher task has failed: the ledger holds one
\* failure, the watcher's
C24_Witness ==
    /\ \E j \in JobIds : jobs[j].status = "failed"
    /\ hist["a.pdf"].fails = 1
    /\ failed["a.pdf"] = [attempts |-> 1, blacklisted |-> FALSE]
    /\ \A p \in LedgerPaths \ {"a.pdf"} : failed[p] = NoRow

\* the watcher's submit_task call of this step
WatcherSubmitted == wt.pc = "submit" /\ wt' # wt

\* C25: when the watcher's submit_task for a file raises queue.Full the queue
\* stays as it is and the scan goes on without that file: within one scan no
\* file is put back among the candidates, so the file is not tried again in
\* that scan; every later scan starts with all the files again, and a submit
\* that finds room puts the file's task at the end of the queue.
C25_FullDefersToLaterScan ==
    [][/\ (WatcherSubmitted /\ IsFull(queue)) =>
             /\ lastPut'.result = "Full"
             /\ queue' = queue
             /\ wt'.pc = "scan"
             /\ wt.cur \notin wt'.todo
       /\ (wt.pc # "sleep" /\ wt'.pc # "sleep") =>
             /\ wt'.todo \subseteq wt.todo
             /\ wt'.cur \notin wt'.todo
       /\ (wt.pc = "sleep" /\ wt'.pc # "sleep") => wt'.todo = WatchPaths
       /\ (WatcherSubmitted /\ ~IsFull(queue)) =>
             queue' = Append(queue, WatcherTask(wt.cur))]_vars

\* the file whose submit found the queue full has been submitted by a later scan
C25_Witness ==
    /\ hist["a.pdf"].deferred = "done"
    /\ lastPut.result = "ok"
    /\ queue # <<>>
    /\ queue[Len(queue)] = WatcherTask("a.pdf")

\* the places of the watcher thread in _run and _scan_once
WatcherLoop == {"sleep", "scan", "blacklist", "submit"}

\* C26: the watcher thread never ends: it is always asleep or inside a scan
\* and always has a next step (but where the run has used up its tasks and the
\* watcher is about to submit one more); its sleep ends in a new scan, and a
\* scan, whether it ran to its end or was ended by an exception, ends in sleep.
C26_WatcherLoopsForever ==
    /\ [](/\ wt.pc \in WatcherLoop
          /\ \/ ENABLED WatcherStep
             \/ wt.pc = "submit" /\ nAccepted >= budget)
    /\ [][/\ (wt.pc = "sleep" /\ wt' # wt) => wt'.pc = "scan"
          /\ (wt'.aborted /\ ~wt.aborted) => wt'.pc = "sleep"
          /\ (wt.pc = "scan" /\ wt.todo = {} /\ wt' # wt) => wt'.pc = "sleep"]_vars

\* the watcher sleeps after a scan that an exception ended, a task of an
\* earlier scan still waiting
C26_Witness ==
    /\ wt.pc = "sleep"
    /\ wt.aborted
    /\ queue # <<>>

\* the least integer not below a / b, for b > 0
Ceil(a, b) == IF a % b = 0 THEN a \div b ELSE (a \div b) + 1

Max(a, b) == IF a >= b THEN a ELSE b

\* chunk_markdown has returned the chunks of a text that has tokens
Chunked == ck.pc = "done" /\ ck.tokens >= 1

\* C27 as claimed: a text of N >= 1 tokens gives exactly
\* ceil((N - O) / (C - O)) chunks.
C27_ChunkCountAsClaimed ==
    Chunked => Len(ck.chunks) = Ceil(ck.tokens - ck.overlap, ck.chunk_size - ck.overlap)

\* C27: a text of N >= 1 tokens gives exactly max(1, ceil((N - O) / (C - O)))
\* chunks: the formula of the claim when N > O, one chunk when N <= O.
C27_ChunkCount ==
    Chunked => Len(ck.chunks) =
                 Max(1, Ceil(ck.tokens - ck.overlap, ck.chunk_size - ck.overlap))

\* a text longer than two chunks, chunked with an overlap: four chunks
C27_Witness ==
    /\ Chunked
    /\ ck.tokens = 6
    /\ ck.chunk_size = 3
    /\ ck.overlap = 2
    /\ Len(ck.chunks) = 4

\* C28: chunk_markdown returns, and for a text of N >= 1 tokens every token
\* is in a chunk, the first chunk starts at the first token, every later chunk
\* starts exactly O tokens before the end of the chunk before it, and the last
\* chunk, and no other, ends at the last token.
C28_ChunkingTerminatesAndCovers ==
    /\ <>(ck.pc = "done")
    /\ [](Chunked =>
            /\ \A t \in 1..ck.tokens :
                 \E i \in 1..Len(ck.chunks) : ck.chunks[i][1] < t /\ t <= ck.chunks[i][2]
            /\ ck.chunks[1][1] = 0
            /\ \A i \in 2..Len(ck.chunks) :
                 ck.chunks[i][1] = ck.chunks[i - 1][2] - ck.overlap
            /\ \A i \in 1..Len(ck.chunks) :
                 ck.chunks[i][2] = ck.tokens <=> i = Len(ck.chunks))

\* a text chunked into three overlapping chunks, the last one shorter
C28_Witness ==
    /\ Chunked
    /\ ck.overlap = 1
    /\ ck.chunks = <<<<0, 3>>, <<2, 5>>, <<4, 6>>>>

\* C29: when add_embeddings has returned for a new record with n chunks, the
\* table holds n more rows than before and the rows it had; the new rows are
\* the only ones with the record's id, their chunk indexes are 0..n-1 in
\* order, and row i has the vector and the text of chunk i.
C29_IndexGainsChunksInOrder ==
    LET a == vs.last
        n == Len(a.chunks)
        old == Len(a.rowsBefore)
    IN  (a.document_id # 0 /\ ~a.raised) =>
          /\ Len(vs.rows) = old + n
          /\ \A i \in 1..old : /\ vs.rows[i] = a.rowsBefore[i]
                                /\ vs.rows[i].document_id # a.document_id
          /\ \A i \in 1..n :
               vs.rows[old + i] = [document_id |-> a.document_id,
                                   chunk_index |-> i - 1,
                                   vector |-> a.embeddings[i].vector,
                                   text |-> a.chunks[i]]

\* the second record indexed had two chunks of different texts
C29_Witness ==
    /\ ~vs.last.raised
    /\ vs.last.chunks = <<"t2", "t1">>
    /\ Len(vs.last.rowsBefore) = 2
    /\ Len(vs.rows) = 4

\* C30: when add_embeddings raises for a vector of another length, the table
\* and the store's dimension are what they were before the call.
C30_FailedAddLeavesStore ==
    vs.last.raised => (vs.rows = vs.last.rowsBefore /\ vs.dim = vs.last.dimBefore)

\* the name of a backend in the settings is not one the code knows
UnknownBackend ==
    \/ pr.parser_backend \notin ParserBackends
    \/ pr.embedding_backend \notin EmbeddingBackends

\* C31: with an unknown parser or embedding backend name in the settings
\* PDFProcessor(settings) never returns an object: no worker is started, no
\* task is accepted or executed, and no row is written to documents.
C31_UnknownBackendFailsConstruction ==
    UnknownBackend =>
        /\ pr.pc \in {"new", "failed"}
        /\ \A w \in Workers : wk[w].pc = "unstarted"
        /\ wk[Caller].pc = "idle"
        /\ queue = <<>>
        /\ nAccepted = 0
        /\ docs = <<>>

\* the threads inside the body of a failure-ledger call
InsideRepo == {t \in RepoThreads : rp.th[t].pc \in {"select", "write", "release"}}

\* C32: failure-ledger calls of the workers and the watcher run one at a
\* time: at most one thread is inside a call's body, the attempt count of a
\* path is the number of record_failure calls made for it since its row was
\* last cleared (no update is lost), record_failure returns that count and
\* is_blacklisted the flag of the row as it is.
C32_LedgerCallsSerialized ==
    /\ Cardinality(InsideRepo) <= 1
    /\ \A p \in LedgerPaths : failed[p].attempts = rp.recorded[p]
    /\ \A t \in InsideRepo :
         LET c == rp.th[t]
         IN  /\ rp.lock = t
             /\ (c.pc = "release" /\ c.op = "record_failure")
                   => (c.ret = failed[c.path] /\ c.ret.attempts = rp.recorded[c.path])
             /\ (c.pc = "release" /\ c.op = "is_blacklisted")
                   => c.flag = IsBlacklisted(failed[c.path])

\* a worker has written the second failure of a path while the other worker
\* waits for the lock with a record_failure for the same path and the watcher
\* with an is_blacklisted
C32_Witness ==
    /\ rp.th[1].pc = "release"
    /\ rp.th[1].op = "record_failure"
    /\ rp.th[1].ret.attempts = 2
    /\ rp.th[2] = [IdleRepo EXCEPT !.pc = "lock", !.op = "record_failure",
                                   !.path = rp.th[1].path]
    /\ rp.th[WatcherThread].pc = "lock"

\* the places (group, position) at which a job is listed in the returned dict
Listings(j) == {<<g, k>> \in (1..4) \X (1..Len(st.snap)) :
                  k <= Len(st.groups[g]) /\ st.groups[g][k].job = j}

\* C33: a dict returned by status_payload lists each job of the map in
\* exactly one of queue, in_progress, completed and failed, and the status
\* in the payload of a job is that of the group it is listed under.
C33_SnapshotGroupsConsistent ==
    st.pc = "returned" =>
        \A i \in 1..Len(st.snap) :
          /\ Cardinality(Listings(st.snap[i])) = 1
          /\ \A l \in Listings(st.snap[i]) :
               st.groups[l[1]][l[2]].status = GroupStatus[l[1]]

\* the task whose save wrote row d of documents is still being executed
Creating(d) ==
    \E t \in Threads :
      /\ wk[t].rec = d
      /\ \E i \in 1..Len(wk[t].log) : wk[t].log[i] = Call("save")
      /\ wk[t].pc \in {"embed", "index", "on_success", "on_error"}

\* C34: every row of documents whose creating task has been through its
\* terminal hook has its embeddings in the vector store; a task that ended in
\* on_error has left no row behind.
C34_NoRecordWithoutVectors ==
    \A d \in 1..Len(docs) : ~Creating(d) => d \in indexed

\* C35: for a watched path whose every execution failed, each failure
\* recorded in the ledger, the executions for that path are at most
\* settings.max_process_attempts.
C35_ExecutionsBoundedByMaxAttempts ==
    \A p \in WatchPaths :
      (~hist[p].succ /\ failed[p].attempts = hist[p].fails)
      => hist[p].fails <= MaxProcessAttempts

\* C36: a watched file whose executions all fail is blacklisted in the end,
\* wherever in the pipeline they fail, as long as the watcher goes on
\* scanning, no scan is cut short by an exception and every record_failure
\* call writes its row.
C36_FailingFileBlacklisted ==
    \A p \in WatchPaths :
      (/\ []~hist[p].succ
       /\ []<>(wt.pc = "sleep")
       /\ []~wt.aborted
       /\ [](\A w \in Workers : ~wk[w].ledgerRaised))
      => <>IsBlacklisted(failed[p])

\* a task that is not a sentinel waits in the queue
TaskWaiting == \E i \in 1..Len(queue) : queue[i].job_id # "__shutdown__"

\* C37: as long as no worker thread is ended by an exception of a hook,
\* every task the queue has accepted is taken by a worker in the end,
\* whether shutdown was called before or after it was accepted.
C37_AcceptedTaskIsClaimed ==
    ([](\A w \in Workers : wk[w].pc # "dead")) => (TaskWaiting ~> ~TaskWaiting)

\* the workers that have a task in their hands
Executing == {w \in Workers : wk[w].task # NoTask}

\* the worker's get() call of this step
Dequeued(w) == wk[w].pc = "get" /\ wk'[w] # wk[w]

\* C38: the queue never holds more than max(1, PROCESS_QUEUE_MAXSIZE) tasks,
\* sentinels included; the tasks being executed are the unfinished ones that
\* are not waiting, at most max(1, PROCESS_WORKERS) of them, no two workers
\* having the same one and none of them waiting in the queue as well; a get()
\* takes the oldest task off the queue and hands it to the one worker that
\* called it, a task that no worker has had before.
C38_QueueAndPoolBounded ==
    /\ [](/\ Len(queue) <= QueueMaxsize
          /\ Cardinality(Executing) <= WorkerCount
          /\ Cardinality(Executing) = unfinished - Len(queue)
          /\ \A w, v \in Executing : wk[w].task = wk[v].task => w = v
          /\ \A w \in Executing, i \in 1..Len(queue) : queue[i] # wk[w].task
          /\ \A i, k \in 1..Len(queue) :
               (queue[i] = queue[k] /\ queue[i] # Sentinel) => i = k)
    /\ [][\A w \in Workers :
            Dequeued(w) =>
              /\ queue # <<>>
              /\ queue' = Tail(queue)
              /\ \A v \in Workers \ {w} : wk'[v] = wk[v]
              /\ Head(queue) # Sentinel =>
                    /\ wk'[w].task = Head(queue)
                    /\ jobs[Head(queue).job].status = "queued"
              /\ Head(queue) = Sentinel => wk'[w].pc = "exited"]_vars

\* the queue is full, a sentinel behind an upload, while a worker is
\* executing another upload and a third upload waits for a slot
C38_Witness ==
    /\ Len(queue) = QueueMaxsize
    /\ queue[1].job_id = "upload"
    /\ queue[Len(queue)] = Sentinel
    /\ \E w \in Executing : wk[w].task.job_id = "upload" /\ wk[w].pc = "pipeline"
    /\ up.pc = "putting"

\* C39: the metadata field of a task is at every step of its execution the
\* dict the task was built with; in the Document Record every key of that
\* dict has the caller's value, and every other key that _collect_metadata
\* knows has the value read from the file system, if the file could be read.
C39_CallerMetadataWins ==
    /\ md.task = md.base
    /\ md.pc = "saved" =>
         LET persisted == JsonLoads(md.stored)
         IN  /\ \A k \in DOMAIN md.base :
                  k \in DOMAIN persisted /\ persisted[k] = CallerValue(k)
             /\ md.stat = "ok" =>
                  \A i \in 1..Len(FsKeys) :
                    /\ FsKeys[i] \in DOMAIN persisted
                    /\ FsKeys[i] \notin DOMAIN md.base
                          => persisted[FsKeys[i]] = FsValue(FsKeys[i])
             /\ DOMAIN persisted \subseteq DOMAIN md.base \cup
                                            {FsKeys[i] : i \in 1..Len(FsKeys)}

\* a record saved for a task whose caller gave file_size and ingest_source:
\* file_size is the caller's, source_path the file system's
C39_Witness ==
    /\ md.pc = "saved"
    /\ DOMAIN md.base = {"file_size", "ingest_source"}
    /\ JsonLoads(md.stored)["file_size"] = CallerValue("file_size")
    /\ JsonLoads(md.stored)["source_path"] = FsValue("source_path")

====
